---------------------------- MODULE Spec2Model ----------------------------
(***************************************************************************)
(* A model of the extraction-and-matching pipeline of the MRM              *)
(* reproducible-research scripts:                                          *)
(*   scripts/scan_keywords_update_workbook.py   keyword scan, row matching *)
(*   scripts/sort_mrm_pdfs_by_acceptance_and_build_workbook.py  dates,     *)
(*                                   identifiers, gender                   *)
(*   scripts/add_affiliation_country_from_pdfs.py   country lexicon,       *)
(*                                   affiliation line, PDF index           *)
(* Text is modelled as a sequence of one-character strings, so that the    *)
(* regular expressions and substring tests of the code are computed        *)
(* character by character.                                                 *)
(***************************************************************************)
EXTENDS Integers, Sequences, FiniteSets, TLC

VARIABLES
    \* update_keywords_in_workbook
    wb,           \* the loaded workbook: a sequence of sheets, in sheet order
    index,        \* build_workbook_index(wb)
    cur,          \* position of the folder loop: last (month, file) processed
    log_rows,     \* the rows of keyword_scan_log.csv collected so far
    match_trace,  \* per logged PDF: which matching pass produced the row
    pcU,          \* "idle" | "loop" | "save" | "done"
    disk,         \* what the run leaves on disk: workbook file, backup, log
    make_backup,  \* the argument of update_keywords_in_workbook: not --no-backup
    \* notebook_style_keyword_scan, statement by statement
    sTerms, sPages, ki, pgi, found, seen, examined, pcS,
    \* parse_accepted_date, pattern by pattern
    dText, dNorm, tried, dResult, pcD,
    \* normalize_text_for_dates applied twice
    nText, nOnce, nTwice, pcN,
    \* the three identifier extractors applied to one input
    iText, iSorter, iAffil, iLink, pcI,
    \* build_country_matchers
    registry, name_map, keys_sorted, ci, pcL,
    \* one workbook row of the affiliation updater: split_pre_abstract,
    \* pick_first_affiliation_line and its calls of infer_country
    aText, pre_abs, aLines, aPass, aLine, inferred, aResult, pcA,
    \* index_pdfs_by_doi
    pdfs, doi_to_pdf, xi, pcX,
    \* infer_gender
    firstname, popular_map, use_genderize, HAVE_GENDERIZE, consulted, gResult,
    pcG,
    \* get_mrm_dois_by_year: main and iter_crossref
    fEntry, fArgv, fRows, cursor, items, nxt, yi, fetched, yielded, nFetch, fResult, pcF,
    \* main of sort_mrm_pdfs_by_acceptance_and_build_workbook.py
    dry_run, move_files, mTree, mTree0, mDirs, mWritten, mPdfs, mi, mSheets, mLog, mMoves, pcM,
    \* main of add_affiliation_country_from_pdfs.py
    no_backup, cDisk, cWb, cPdfs, cIndex, cSheet, cRow, cLog, cSeen, pcC

varsU == <<wb, index, cur, log_rows, match_trace, pcU, disk, make_backup>>
varsS == <<sTerms, sPages, ki, pgi, found, seen, examined, pcS>>
varsD == <<dText, dNorm, tried, dResult, pcD>>
varsN == <<nText, nOnce, nTwice, pcN>>
varsI == <<iText, iSorter, iAffil, iLink, pcI>>
varsL == <<registry, name_map, keys_sorted, ci, pcL>>
varsA == <<aText, pre_abs, aLines, aPass, aLine, inferred, aResult, pcA>>
varsX == <<pdfs, doi_to_pdf, xi, pcX>>
varsG ==
    <<firstname, popular_map, use_genderize, HAVE_GENDERIZE, consulted, gResult, pcG>>
varsF == <<fEntry, fArgv, fRows, cursor, items, nxt, yi, fetched, yielded, nFetch, fResult, pcF>>
varsM == <<dry_run, move_files, mTree, mTree0, mDirs, mWritten, mPdfs, mi, mSheets, mLog, mMoves, pcM>>
varsC == <<no_backup, cDisk, cWb, cPdfs, cIndex, cSheet, cRow, cLog, cSeen, pcC>>
vars ==
    <<varsU, varsS, varsD, varsN, varsI, varsL, varsA, varsX, varsG, varsF, varsM, varsC>>

\* the variables of the other components, which a step of one component
\* leaves alone
othersU ==
    <<varsS, varsD, varsN, varsI, varsL, varsA, varsX, varsG, varsF, varsM, varsC>>
othersS ==
    <<varsU, varsD, varsN, varsI, varsL, varsA, varsX, varsG, varsF, varsM, varsC>>
othersD ==
    <<varsU, varsS, varsN, varsI, varsL, varsA, varsX, varsG, varsF, varsM, varsC>>
othersN ==
    <<varsU, varsS, varsD, varsI, varsL, varsA, varsX, varsG, varsF, varsM, varsC>>
othersI ==
    <<varsU, varsS, varsD, varsN, varsL, varsA, varsX, varsG, varsF, varsM, varsC>>
othersL ==
    <<varsU, varsS, varsD, varsN, varsI, varsA, varsX, varsG, varsF, varsM, varsC>>
othersA ==
    <<varsU, varsS, varsD, varsN, varsI, varsL, varsX, varsG, varsF, varsM, varsC>>
othersX ==
    <<varsU, varsS, varsD, varsN, varsI, varsL, varsA, varsG, varsF, varsM, varsC>>
othersG ==
    <<varsU, varsS, varsD, varsN, varsI, varsL, varsA, varsX, varsF, varsM, varsC>>
othersF ==
    <<varsU, varsS, varsD, varsN, varsI, varsL, varsA, varsX, varsG, varsM, varsC>>
othersM ==
    <<varsU, varsS, varsD, varsN, varsI, varsL, varsA, varsX, varsG, varsF, varsC>>
othersC ==
    <<varsU, varsS, varsD, varsN, varsI, varsL, varsA, varsX, varsG, varsF, varsM>>

---------------------------------------------------------------------------
(* Characters *)

UpperLetters == <<"A", "B", "C", "D", "E", "F", "G", "H", "I", "J", "K", "L", "M", "N", "O", "P", "Q", "R", "S", "T", "U", "V", "W", "X", "Y", "Z">>
LowerLetters == <<"a", "b", "c", "d", "e", "f", "g", "h", "i", "j", "k", "l", "m", "n", "o", "p", "q", "r", "s", "t", "u", "v", "w", "x", "y", "z">>
DigitChars == <<"0", "1", "2", "3", "4", "5", "6", "7", "8", "9">>

Range(s) == {s[i] : i \in DOMAIN s}

LetterSet == Range(UpperLetters) \cup Range(LowerLetters)
DigitSet == Range(DigitChars)
\* the code point U+00A0, one character
NBSP == "nbsp"
\* what \s matches among the characters of the model
SpaceSet == {" ", "\n", "\t", NBSP}
\* what \w matches: \b lies between a \w and a non-\w character
WordSet == LetterSet \cup DigitSet \cup {"_"}

ToLower ==
    [c \in Range(UpperLetters) |->
        LowerLetters[CHOOSE i \in DOMAIN UpperLetters : UpperLetters[i] = c]]

\* str.lower(), one character
LowerChar(c) == IF c \in DOMAIN ToLower THEN ToLower[c] ELSE c

\* str.lower()
Lower(s) == [i \in DOMAIN s |-> LowerChar(s[i])]

\* a in b, for strings
IsSubstring(a, b) ==
    \/ a = <<>>
    \/ \E i \in 1..(Len(b) - Len(a) + 1) :
           b[i] = a[1] /\ SubSeq(b, i, i + Len(a) - 1) = a

\* the end (exclusive) of the longest run of characters of class S from p
RECURSIVE RunEnd(_, _, _)
RunEnd(t, p, S) ==
    IF p > Len(t) THEN p
    ELSE IF t[p] \notin S THEN p
    ELSE RunEnd(t, p + 1, S)

\* the end (exclusive) of the longest run of characters outside S from p
RECURSIVE RunEndNot(_, _, _)
RunEndNot(t, p, S) ==
    IF p > Len(t) THEN p
    ELSE IF t[p] \in S THEN p
    ELSE RunEndNot(t, p + 1, S)

IsWordAt(t, p) == p >= 1 /\ p <= Len(t) /\ t[p] \in WordSet

\* \b at the gap before position p (p = Len(t)+1: the end of the text)
WordBoundary(t, p) == IsWordAt(t, p - 1) # IsWordAt(t, p)

---------------------------------------------------------------------------
(* DOI_RE = \b10\.\d{4,9}/[^\s<>"']+\b *)

DoiMinDigits == 4
DoiMaxDigits == 9
DoiStopSet == SpaceSet \cup {"<", ">", "\"", "'"}
DoiPrefix == <<"1", "0", ".">>

\* a pattern without the closing \b: the greedy run is kept whole
NoBackOff(t, q, b) == q

\* the last gap in (b, q] that is a word boundary, 0 when there is none:
\* where the greedy [^\s<>"']+ backs off to for the closing \b
RECURSIVE LastBoundary(_, _, _)
LastBoundary(t, q, b) ==
    IF q <= b THEN 0
    ELSE IF WordBoundary(t, q) THEN q
    ELSE LastBoundary(t, q - 1, b)

\* the end (exclusive) of DOI_RE's match starting at p, 0 when it does not match
DoiMatchEnd(t, p) ==
    IF p + 2 > Len(t) THEN 0
    ELSE IF t[p] # "1" \/ SubSeq(t, p, p + 2) # DoiPrefix \/ ~WordBoundary(t, p) THEN 0
    ELSE LET ds == RunEnd(t, p + 3, DigitSet)
             nd == ds - (p + 3)
         IN IF nd < DoiMinDigits \/ nd > DoiMaxDigits \/ ds > Len(t) THEN 0
            ELSE IF t[ds] # "/" THEN 0
            ELSE LastBoundary(t, RunEndNot(t, ds + 1, DoiStopSet), ds + 1)

\* DOI_RE.search(t) from position p on: <<start, end>> of the leftmost
\* match, <<0, 0>> when there is none
RECURSIVE DoiSearchFrom(_, _)
DoiSearchFrom(t, p) ==
    IF p > Len(t) THEN <<0, 0>>
    ELSE LET e == DoiMatchEnd(t, p)
         IN IF e > 0 THEN <<p, e>> ELSE DoiSearchFrom(t, p + 1)

DoiSearch(t) == DoiSearchFrom(t, 1)

\* parse_doi_from_link: "" (the empty sequence) when no DOI is found
parse_doi_from_link(link) ==
    IF link = <<>> THEN <<>>
    ELSE LET m == DoiSearch(link)
         IN IF m[1] = 0 THEN <<>> ELSE Lower(SubSeq(link, m[1], m[2] - 1))


\* str.rstrip(chars)
RECURSIVE Rstrip(_, _)
Rstrip(t, chars) ==
    IF t = <<>> THEN <<>>
    ELSE IF t[Len(t)] \in chars THEN Rstrip(SubSeq(t, 1, Len(t) - 1), chars)
    ELSE t

\* the characters of rstrip(").,;]")
DoiTrailSet == {")", ".", ",", ";", "]"}

\* parse_doi of sort_mrm_pdfs_by_acceptance_and_build_workbook.py
parse_doi(text) ==
    LET m == DoiSearch(text)
    IN IF m[1] = 0 THEN <<>>
       ELSE Lower(Rstrip(SubSeq(text, m[1], m[2] - 1), DoiTrailSet))

\* a parse_doi that finds an identifier only at the start of the string
AffilParseDoiAtStart(s) ==
    IF s = <<>> \/ DoiMatchEnd(s, 1) = 0 THEN <<>>
    ELSE Lower(SubSeq(s, 1, DoiMatchEnd(s, 1) - 1))

\* parse_doi of add_affiliation_country_from_pdfs.py
affil_parse_doi(s) ==
    IF s = <<>> THEN <<>>
    ELSE LET m == DoiSearch(s)
         IN IF m[1] = 0 THEN <<>> ELSE Lower(SubSeq(s, m[1], m[2] - 1))
---------------------------------------------------------------------------
(* notebook_style_keyword_scan *)

MONTH_NAMES ==
    <<"January", "February", "March", "April", "May", "June",
      "July", "August", "September", "October", "November", "December">>

SEARCH_TERMS ==
    << <<"o", "p", "e", "n", " ", "s", "o", "u", "r", "c", "e">>, <<"o", "p", "e", "n", "-", "s", "o", "u", "r", "c", "e">>, <<"o", "p", "e", "n", "s", "o", "u", "r", "c", "e">>, <<"o", "p", "e", "n", " ", "s", "c", "i", "e", "n", "c", "e">>,
       <<"g", "i", "t", "h", "u", "b">>, <<" ", "g", "i", "t", " ">>, <<"o", "s", "f">>, <<"j", "u", "p", "y", "t", "e", "r">>, <<"n", "o", "t", "e", "b", "o", "o", "k">>, <<"o", "c", "t", "a", "v", "e">>,
       <<"a", "v", "a", "i", "l", "a", "b", "l", "e", " ", "o", "n", "l", "i", "n", "e">>, <<"r", "e", "l", "e", "a", "s", "e", "d">>, <<"s", "h", "a", "r", "e", "d">>, <<" ", "c", "o", "d", "e", " ">> >>

\* what a page extraction gives when it raises
Raise == <<"raise">>

\* page_obj.extractText() or "", falling back to extract_text(), then to ""
ScanPageText(page) ==
    IF page.old # Raise THEN page.old
    ELSE IF page.new # Raise THEN page.new
    ELSE <<>>

\* re.search(keyword, page_text) is not None, for a keyword without
\* regular-expression metacharacters (all of SEARCH_TERMS): a case-sensitive
\* substring test
ReSearch(keyword, page_text) == IsSubstring(keyword, page_text)

\* the page loop of one keyword: the first page that matches stops it
KeywordMatches(pages, keyword) ==
    \E p \in DOMAIN pages : ReSearch(keyword, ScanPageText(pages[p]))

RECURSIVE ScanFrom(_, _, _, _)
ScanFrom(pages, terms, k, acc) ==
    IF k > Len(terms) THEN acc
    ELSE IF terms[k] \in Range(acc) THEN ScanFrom(pages, terms, k + 1, acc)
    ELSE IF KeywordMatches(pages, terms[k])
         THEN ScanFrom(pages, terms, k + 1, Append(acc, terms[k]))
         ELSE ScanFrom(pages, terms, k + 1, acc)

\* notebook_style_keyword_scan(pdf, search_terms) of a PDF that can be read
notebook_style_keyword_scan(pages, search_terms) ==
    ScanFrom(pages, search_terms, 1, <<>>)

---------------------------------------------------------------------------
(* update_keywords_in_workbook: matching a PDF to a workbook row *)

NoMatch == <<>>

\* build_workbook_index: per sheet, in sheet order, the (doi, row) pairs;
\* every sheet of the model carries the Link, Filename and Keywords Matched
\* headers; data rows start at row 2
build_workbook_index(w) ==
    [s \in DOMAIN w |->
        [sheet |-> w[s].name,
         rows |-> [i \in DOMAIN w[s].rows |->
                      <<parse_doi_from_link(w[s].rows[i].link), i + 1>>]]]

DoiPages == 2

\* reader.pages[i].extract_text() or "", "" when it raises
MatchPageText(page) == IF page.new # Raise THEN page.new ELSE <<>>

\* the DOI looked for in the first two pages of the PDF, lower-cased
DoiInPdf(pdf) ==
    IF ~pdf.readable THEN <<>>
    ELSE LET n == IF Len(pdf.pages) < DoiPages THEN Len(pdf.pages) ELSE DoiPages
             hits == {i \in 1..n : DoiSearch(MatchPageText(pdf.pages[i]))[1] > 0}
         IN IF hits = {} THEN <<>>
            ELSE LET i == CHOOSE x \in hits : \A y \in hits : x <= y
                     t == MatchPageText(pdf.pages[i])
                     m == DoiSearch(t)
                 IN Lower(SubSeq(t, m[1], m[2] - 1))

\* if doi and doi == doi_in_pdf
DoiRowEligible(doi, doi_in_pdf) == doi # <<>> /\ doi = doi_in_pdf

\* the <<sheet position, row position>> pairs of a workbook or of its index
AllCells(w) == UNION {{<<s, i>> : i \in DOMAIN w[s].rows} : s \in DOMAIN w}

\* FirstPair without the break out of the loops: the last eligible row wins
LastPair(S) ==
    CHOOSE x \in S : \A y \in S : y[1] < x[1] \/ (y[1] = x[1] /\ y[2] <= x[2])

\* the first element of a non-empty set of <<sheet position, row position>>
\* pairs in sheet order, then row order
FirstPair(S) ==
    CHOOSE x \in S : \A y \in S : x[1] < y[1] \/ (x[1] = y[1] /\ x[2] <= y[2])

\* the DOI pass: for sheet, rows in index.items(): for doi, r in rows
DoiTierMatch(idx, doi_in_pdf) ==
    LET hits == {x \in AllCells(idx) :
                    DoiRowEligible(idx[x[1]].rows[x[2]][1], doi_in_pdf)}
    IN IF doi_in_pdf = <<>> \/ hits = {} THEN NoMatch
       ELSE LET x == FirstPair(hits)
            IN <<idx[x[1]].sheet, idx[x[1]].rows[x[2]][2]>>

\* pdf.stem of a name ending in the four characters of the suffix
Stem(name) == SubSeq(name, 1, Len(name) - 4)

\* TitleRowEligible without the .lower() calls
TitleRowEligibleCaseSensitive(title, name) ==
    /\ title # <<>>
    /\ \/ IsSubstring(title, name)
       \/ IsSubstring(Stem(name), title)

\* title and (title.lower() in pdf.name.lower()
\*            or pdf.stem.lower() in title.lower())
TitleRowEligible(title, name) ==
    /\ title # <<>>
    /\ \/ IsSubstring(Lower(title), Lower(name))
       \/ IsSubstring(Lower(Stem(name)), Lower(title))

\* the sheets the title pass looks at: wb[month] if month in wb.sheetnames
TitleSheets(w, month) == {s \in DOMAIN w : w[s].name = month}

\* the title pass: the first row of the month's sheet that is eligible
TitleTierMatch(w, month, name) ==
    LET hits == {x \in AllCells(w) :
                    /\ x[1] \in TitleSheets(w, month)
                    /\ TitleRowEligible(w[x[1]].rows[x[2]].title, name)}
    IN IF hits = {} THEN NoMatch
       ELSE LET x == FirstPair(hits) IN <<w[x[1]].name, x[2] + 1>>

\* the row a PDF is matched to, with the pass that found it (1: DOI, 2: title)
MatchRow(w, idx, pdf) ==
    LET byDoi == DoiTierMatch(idx, DoiInPdf(pdf))
    IN IF byDoi # NoMatch THEN [row |-> byDoi, tier |-> 1]
       ELSE LET byTitle == TitleTierMatch(w, pdf.month, pdf.name)
            IN [row |-> byTitle, tier |-> IF byTitle = NoMatch THEN 0 ELSE 2]

\* str(kws): the text written to the cell and to the log
Str(kws) == <<"str", kws>>

\* ws.cell(matched_row, kw_col).value = value
SetKeywords(w, m, value) ==
    [s \in DOMAIN w |->
        IF w[s].name = m[1]
        THEN [w[s] EXCEPT !.rows[m[2] - 1].kw = value]
        ELSE w[s]]

---------------------------------------------------------------------------
(* The inputs of update_keywords_in_workbook *)

MaxRows == 2
MaxPdfs == 2

Doi1Link == <<"h", "t", "t", "p", "s", ":", "/", "/", "d", "o", "i", ".", "o", "r", "g", "/", "1", "0", ".", "1", "0", "0", "2", "/", "m", "r", "m", ".", "1">>
Doi1LinkUpper == <<"h", "t", "t", "p", "s", ":", "/", "/", "d", "o", "i", ".", "o", "r", "g", "/", "1", "0", ".", "1", "0", "0", "2", "/", "M", "R", "M", ".", "1">>
Doi2Link == <<"d", "o", "i", ":", "1", "0", ".", "1", "0", "0", "2", "/", "m", "r", "m", ".", "2", ".">>
SmithSpaced == <<"S", "m", "i", "t", "h", " ", "2", "0", "2", "4">>
SmithGlued == <<"S", "m", "i", "t", "h", "2", "0", "2", "4">>
SmithStudy == <<"A", " ", "S", "m", "i", "t", "h", "2", "0", "2", "4", " ", "s", "t", "u", "d", "y">>
SmithShort == <<"s", "m", "i", "t", "h">>
SmithPdf == <<"s", "m", "i", "t", "h", "2", "0", "2", "4", ".", "p", "d", "f">>
JonesPdf == <<"j", "o", "n", "e", "s", ".", "P", "D", "F">>

\* a data row: its Link, Filename (the title) and Keywords Matched cells;
\* an empty cell reads as the empty text
RowPool ==
    { [link |-> Doi1Link, title |-> SmithSpaced, kw |-> <<>>],
      [link |-> Doi1LinkUpper, title |-> SmithStudy, kw |-> <<>>],
      [link |-> <<>>, title |-> SmithShort, kw |-> <<>>],
      [link |-> <<>>, title |-> SmithGlued, kw |-> <<>>],
      [link |-> Doi2Link, title |-> <<>>, kw |-> <<>>] }

SheetLayouts == { <<"January", "February">>, <<"February">> }

RowSeqs == UNION {[1..k -> RowPool] : k \in 0..MaxRows}

RECURSIVE TotalRows(_)
TotalRows(rs) == IF rs = <<>> THEN 0 ELSE Len(Head(rs)) + TotalRows(Tail(rs))

Workbooks ==
    UNION { { [i \in DOMAIN L |-> [name |-> L[i], rows |-> f[i]]] :
                f \in {g \in [DOMAIN L -> RowSeqs] : TotalRows(g) <= MaxRows} } :
            L \in SheetLayouts }

\* the file names, in sorted() order, and the (month folder, file) places
\* a PDF may be found at
PdfNames == <<JonesPdf, SmithPdf>>
PdfSlots == { <<"January", JonesPdf>>, <<"January", SmithPdf>>,
              <<"February", SmithPdf>> }

Page(t) == [old |-> t, new |-> t]

\* what a PDF file holds: whether PdfReader reads it, and its pages
PdfContents ==
    { [readable |-> FALSE, pages |-> <<>>],
      [readable |-> TRUE, pages |-> << Page(<<"n", "o", " ", "t", "e", "r", "m", "s", " ", "h", "e", "r", "e">>) >>],
      [readable |-> TRUE, pages |-> << [old |-> Raise, new |-> <<"c", "o", "d", "e", " ", "o", "n", " ", "g", "i", "t", "h", "u", "b">>] >>],
      [readable |-> TRUE,
       pages |-> << Page(<<"d", "o", "i", " ", "1", "0", ".", "1", "0", "0", "2", "/", "M", "R", "M", ".", "1", ".", " ", "o", "s", "f">>), Page(<<"g", "i", "t", "h", "u", "b">>) >>],
      [readable |-> TRUE,
       pages |-> << Page(<<"o", "s", "f">>), [old |-> <<"g", "i", "t", "h", "u", "b">>, new |-> Raise],
                    Page(<<"1", "0", ".", "1", "0", "0", "2", "/", "m", "r", "m", ".", "2">>) >>] }

MonthIdx(m) == CHOOSE i \in DOMAIN MONTH_NAMES : MONTH_NAMES[i] = m
NameIdx(n) == CHOOSE i \in DOMAIN PdfNames : PdfNames[i] = n

\* for month in MONTH_NAMES: for pdf in sorted(...): the PDFs come in
\* month order, then in file-name order
After(pdf, c) ==
    \/ MonthIdx(pdf.month) > c.m
    \/ MonthIdx(pdf.month) = c.m /\ NameIdx(pdf.name) > c.n

---------------------------------------------------------------------------
(* update_keywords_in_workbook: the loop over the PDFs and the final save *)

IdleU ==
    /\ wb = <<>> /\ index = <<>> /\ cur = [m |-> 0, n |-> 0]
    /\ log_rows = <<>> /\ match_trace = <<>> /\ pcU = "idle"
    /\ disk = [xlsx |-> <<>>, backups |-> <<>>, logs |-> <<>>]
    /\ make_backup = FALSE

IdleS ==
    /\ sTerms = <<>> /\ sPages = <<>> /\ ki = 0 /\ pgi = 0
    /\ found = <<>> /\ seen = {} /\ examined = <<>> /\ pcS = "idle"

IdleD ==
    /\ dText = <<>> /\ dNorm = <<>> /\ tried = <<>> /\ dResult = <<>>
    /\ pcD = "idle"

IdleN == nText = <<>> /\ nOnce = <<>> /\ nTwice = <<>> /\ pcN = "idle"

IdleI ==
    /\ iText = <<>> /\ iSorter = <<>> /\ iAffil = <<>> /\ iLink = <<>>
    /\ pcI = "idle"

IdleL ==
    /\ registry = <<>> /\ name_map = <<>> /\ keys_sorted = <<>> /\ ci = 0
    /\ pcL = "idle"

IdleA ==
    /\ aText = <<>> /\ pre_abs = <<>> /\ aLines = <<>> /\ aPass = 0
    /\ aLine = 0 /\ inferred = <<>> /\ aResult = <<>> /\ pcA = "idle"

IdleX == pdfs = <<>> /\ doi_to_pdf = <<>> /\ xi = 0 /\ pcX = "idle"

IdleG ==
    /\ firstname = <<>> /\ popular_map = <<>> /\ use_genderize = FALSE
    /\ HAVE_GENDERIZE = FALSE
    /\ consulted = <<>> /\ gResult = <<>> /\ pcG = "idle"

IdleF ==
    /\ fEntry = "" /\ fArgv = <<>> /\ fRows = 0 /\ cursor = "" /\ items = <<>> /\ nxt = ""
    /\ yi = 0 /\ fetched = <<>> /\ yielded = <<>> /\ nFetch = 0 /\ fResult = "" /\ pcF = "idle"

IdleM ==
    /\ dry_run = FALSE /\ move_files = FALSE /\ mTree = {} /\ mTree0 = {} /\ mDirs = {}
    /\ mWritten = {} /\ mPdfs = <<>> /\ mi = 0 /\ mSheets = <<>> /\ mLog = <<>>
    /\ mMoves = <<>> /\ pcM = "idle"

IdleC ==
    /\ no_backup = FALSE /\ cDisk = <<>> /\ cWb = <<>> /\ cPdfs = <<>> /\ cIndex = <<>>
    /\ cSheet = 0 /\ cRow = 0 /\ cLog = <<>> /\ cSeen = <<>> /\ pcC = "idle"

\* every component but the one that runs is idle
IdleAllBut(c) ==
    /\ IF c = "U" THEN TRUE ELSE IdleU
    /\ IF c = "S" THEN TRUE ELSE IdleS
    /\ IF c = "D" THEN TRUE ELSE IdleD
    /\ IF c = "N" THEN TRUE ELSE IdleN
    /\ IF c = "I" THEN TRUE ELSE IdleI
    /\ IF c = "L" THEN TRUE ELSE IdleL
    /\ IF c = "A" THEN TRUE ELSE IdleA
    /\ IF c = "X" THEN TRUE ELSE IdleX
    /\ IF c = "G" THEN TRUE ELSE IdleG
    /\ IF c = "F" THEN TRUE ELSE IdleF
    /\ IF c = "M" THEN TRUE ELSE IdleM
    /\ IF c = "C" THEN TRUE ELSE IdleC

\* wb = load_workbook(xlsx_path); index = build_workbook_index(wb)
InitUpdate ==
    /\ wb \in Workbooks
    /\ index = build_workbook_index(wb)
    /\ cur = [m |-> 0, n |-> 0]
    /\ log_rows = <<>>
    /\ match_trace = <<>>
    /\ pcU = "loop"
    /\ disk = [xlsx |-> wb, backups |-> <<>>, logs |-> <<>>]
    /\ make_backup \in BOOLEAN
    /\ IdleAllBut("U")

\* one iteration of "for pdf in pdfs": scan, match, update the cell, log
ProcessPdf(pdf) ==
    /\ pcU = "loop"
    /\ Len(log_rows) < MaxPdfs
    /\ After(pdf, cur)
    /\ cur' = [m |-> MonthIdx(pdf.month), n |-> NameIdx(pdf.name)]
    /\ IF ~pdf.readable
       THEN /\ log_rows' = Append(log_rows,
                [month |-> pdf.month, pdf |-> pdf.name, keywords |-> <<>>,
                 status |-> <<"scan_failed">>, doi |-> <<"error">>])
            /\ match_trace' = Append(match_trace, [reached |-> FALSE, tier |-> 0])
            /\ wb' = wb
       ELSE LET kws == notebook_style_keyword_scan(pdf.pages, SEARCH_TERMS)
                m == MatchRow(wb, index, pdf)
            IN IF kws = <<>>
               THEN /\ log_rows' = Append(log_rows,
                        [month |-> pdf.month, pdf |-> pdf.name, keywords |-> <<>>,
                         status |-> <<"no_keywords">>, doi |-> <<>>])
                    /\ match_trace' =
                           Append(match_trace, [reached |-> FALSE, tier |-> 0])
                    /\ wb' = wb
               ELSE IF m.row = NoMatch
               THEN /\ log_rows' = Append(log_rows,
                        [month |-> pdf.month, pdf |-> pdf.name,
                         keywords |-> Str(kws),
                         status |-> <<"no_match_in_xlsx">>,
                         doi |-> DoiInPdf(pdf)])
                    /\ match_trace' =
                           Append(match_trace, [reached |-> TRUE, tier |-> 0])
                    /\ wb' = wb
               ELSE /\ wb' = SetKeywords(wb, m.row, Str(kws))
                    /\ log_rows' = Append(log_rows,
                        [month |-> pdf.month, pdf |-> pdf.name,
                         keywords |-> Str(kws),
                         status |-> <<"updated", m.row[1], m.row[2]>>,
                         doi |-> DoiInPdf(pdf)])
                    /\ match_trace' =
                           Append(match_trace, [reached |-> TRUE, tier |-> m.tier])
    /\ UNCHANGED <<index, pcU, disk, make_backup>>
    /\ UNCHANGED othersU

\* a run that never writes a backup
BackupNever(file, backups, enabled) == backups

\* shutil.copy2(xlsx_path, backup): the file as it is, under a name of its own
BackupOf(file, backups, enabled) == IF enabled THEN <<file>> ELSE backups

\* after the loop: if make_backup: the backup copy of the workbook file
BackupCopy ==
    /\ pcU = "loop"
    /\ pcU' = "save"
    /\ disk' = [disk EXCEPT !.backups = BackupOf(disk.xlsx, @, make_backup)]
    /\ UNCHANGED <<wb, index, cur, log_rows, match_trace, make_backup>>
    /\ UNCHANGED othersU

\* wb.save(xlsx_path), then the log file
SaveAndLog ==
    /\ pcU = "save"
    /\ pcU' = "done"
    /\ disk' = [disk EXCEPT !.xlsx = wb, !.logs = <<log_rows>>]
    /\ UNCHANGED <<wb, index, cur, log_rows, match_trace, make_backup>>
    /\ UNCHANGED othersU

NextUpdate ==
    \/ \E sl \in PdfSlots, c \in PdfContents :
           ProcessPdf([month |-> sl[1], name |-> sl[2],
                       readable |-> c.readable, pages |-> c.pages])
    \/ BackupCopy
    \/ SaveAndLog

SpecUpdate == InitUpdate /\ [][NextUpdate]_vars

---------------------------------------------------------------------------
(* Claims about the matching of a PDF to a workbook row *)

\* the position of the sheet called name
SheetPos(name) == CHOOSE s \in DOMAIN wb : wb[s].name = name

\* the data row a log row says was updated
UpdatedRow(i) ==
    wb[SheetPos(log_rows[i].status[2])].rows[log_rows[i].status[3] - 1]

IsUpdated(i) == log_rows[i].status[1] = "updated"

\* x comes before y in sheet order, then row order
Earlier(x, y) == x[1] < y[1] \/ (x[1] = y[1] /\ x[2] < y[2])

\* the cell <<sheet position, row position>> a log row says was updated
UpdatedCell(i) == <<SheetPos(log_rows[i].status[2]), log_rows[i].status[3] - 1>>

\* tier 2: the row's title occurs in the file name, ignoring case
Tier2Cells(i) ==
    {x \in AllCells(wb) :
        /\ wb[x[1]].rows[x[2]].title # <<>>
        /\ IsSubstring(Lower(wb[x[1]].rows[x[2]].title), Lower(log_rows[i].pdf))}

\* tier 3: the file name's stem occurs in the row's title, ignoring case
Tier3Cells(i) ==
    {x \in AllCells(wb) :
        /\ wb[x[1]].rows[x[2]].title # <<>>
        /\ IsSubstring(Lower(Stem(log_rows[i].pdf)),
                       Lower(wb[x[1]].rows[x[2]].title))}

\* tier 1: the rows whose link holds the identifier found in the PDF
Tier1Cells(i) ==
    {x \in AllCells(wb) :
        /\ log_rows[i].doi # <<>>
        /\ parse_doi_from_link(wb[x[1]].rows[x[2]].link) = log_rows[i].doi}

InMonthSheet(i, x) == wb[x[1]].name = log_rows[i].month

\* C1 (as claimed): a document matched without an identifier match is
\* matched to the first row, in row order, of its month's sheet whose title
\* occurs in the file name (tier 2), whenever that sheet has such a row,
\* even when an earlier row qualifies only under tier 3.
C1_TitleBeforeStem ==
    \A i \in DOMAIN log_rows :
        (match_trace[i].reached /\ match_trace[i].tier # 1) =>
            LET t2 == {x \in Tier2Cells(i) : InMonthSheet(i, x)}
            IN t2 # {} =>
                  /\ IsUpdated(i)
                  /\ UpdatedCell(i) \in t2
                  /\ \A y \in t2 : ~Earlier(y, UpdatedCell(i))

\* the rows equally eligible in the tier that produced the match of log row i
ProducingTierCells(i) ==
    IF match_trace[i].tier = 1 THEN Tier1Cells(i)
    ELSE {x \in Tier2Cells(i) \cup Tier3Cells(i) : InMonthSheet(i, x)}

\* the log row records an ambiguity warning
LoggedAmbiguous(i) == log_rows[i].status[1] = "ambiguous"

\* C2 (as claimed): a match is flagged ambiguous in the log exactly when two
\* or more rows were eligible in the tier that produced it.
C2_AmbiguityFlagged ==
    \A i \in DOMAIN log_rows :
        match_trace[i].tier # 0 =>
            (LoggedAmbiguous(i) <=> Cardinality(ProducingTierCells(i)) >= 2)

\* C3: a document whose identifier equals the identifier of some row is
\* matched by the identifier pass to the first such row in sheet order, then
\* row order, the title pass is not consulted, and the matched row's
\* identifier is not empty.
C3_IdentifierTierFirstRow ==
    \A i \in DOMAIN log_rows :
        /\ (match_trace[i].reached /\ Tier1Cells(i) # {}) =>
              /\ IsUpdated(i)
              /\ match_trace[i].tier = 1
              /\ UpdatedCell(i) \in Tier1Cells(i)
              /\ \A y \in Tier1Cells(i) : ~Earlier(y, UpdatedCell(i))
        /\ match_trace[i].tier = 1 =>
              /\ parse_doi_from_link(UpdatedRow(i).link) # <<>>
              /\ parse_doi_from_link(UpdatedRow(i).link) = log_rows[i].doi

\* C3 witness: two rows in different sheets carry the document's identifier
\* and the document was matched by the identifier pass.
C3_Witness ==
    \E i \in DOMAIN log_rows :
        /\ match_trace[i].tier = 1
        /\ \E x, y \in Tier1Cells(i) : x[1] # y[1]
        /\ Tier2Cells(i) \cup Tier3Cells(i) # {}

\* C4 (as claimed): a document is logged as not matched only if no row of
\* any sheet is eligible under any of the three tiers.
C4_NoMatchOnlyIfNoRowEligible ==
    \A i \in DOMAIN log_rows :
        log_rows[i].status[1] = "no_match_in_xlsx" =>
            Tier1Cells(i) \cup Tier2Cells(i) \cup Tier3Cells(i) = {}

\* the first data row of the month sheet of log row i has this title
FirstRowOfMonthSheetIs(i, title) ==
    \E s \in DOMAIN wb :
        /\ wb[s].name = log_rows[i].month
        /\ wb[s].rows # <<>>
        /\ wb[s].rows[1].title = title

\* the document of log row i reached the matcher, is called smith2024.pdf
\* and holds no identifier
SmithNoIdentifier(i) ==
    /\ match_trace[i].reached
    /\ log_rows[i].pdf = SmithPdf
    /\ log_rows[i].doi = <<>>

\* C5 (as claimed): smith2024.pdf without identifier is matched to the row
\* titled "Smith 2024" (here the first row of its month's sheet).
C5_SmithSpacedMatched ==
    \A i \in DOMAIN log_rows :
        (SmithNoIdentifier(i) /\ FirstRowOfMonthSheetIs(i, SmithSpaced)) =>
            /\ IsUpdated(i)
            /\ UpdatedRow(i).title = SmithSpaced

\* C5 (amended): smith2024.pdf without identifier is never matched to a row
\* titled "Smith 2024", and is matched to the first row of its month's sheet
\* when that row is titled "Smith2024".
C5_SmithGluedMatched ==
    \A i \in DOMAIN log_rows :
        SmithNoIdentifier(i) =>
            /\ IsUpdated(i) => UpdatedRow(i).title # SmithSpaced
            /\ FirstRowOfMonthSheetIs(i, SmithGlued) =>
                  log_rows[i].status = <<"updated", log_rows[i].month, 2>>

\* C5 witness: smith2024.pdf without identifier, the first row of its month's
\* sheet titled "Smith 2024", and the document logged as not matched.
C5_Witness ==
    \E i \in DOMAIN log_rows :
        /\ SmithNoIdentifier(i)
        /\ FirstRowOfMonthSheetIs(i, SmithSpaced)
        /\ log_rows[i].status[1] = "no_match_in_xlsx"

---------------------------------------------------------------------------
(* notebook_style_keyword_scan, statement by statement *)

MaxTerms == 3
MaxPages == 2

Github == <<"g", "i", "t", "h", "u", "b">>
Osf == <<"o", "s", "f">>
TermPool == { Github, Osf, <<" ", "g", "i", "t", " ">> }

PagePool ==
    { Page(Github),
      Page(<<"g", "i", "t", "h", "u", "b", " ", "a", "n", "d", " ", "o", "s", "f">>),
      [old |-> Raise, new |-> <<"u", "s", "e", " ", "g", "i", "t", " ", "o", "r", " ", "o", "s", "f">>],
      [old |-> Raise, new |-> Raise] }

TermLists == UNION {[1..k -> TermPool] : k \in 0..MaxTerms}
PageLists == UNION {[1..k -> PagePool] : k \in 0..MaxPages}

\* found = []; seen = set(); the reader is open; the keyword loop starts
InitScan ==
    /\ sTerms \in TermLists
    /\ sPages \in PageLists
    /\ ki = 1
    /\ pgi = 0
    /\ found = <<>>
    /\ seen = {}
    /\ examined = <<>>
    /\ pcS = "term"
    /\ IdleAllBut("S")

\* AlreadySeen without the seen set
AlreadySeenNever(keyword, s) == FALSE

\* if keyword in seen
AlreadySeen(keyword, s) == keyword \in s

\* AfterMatch without the break: the page loop goes on
AfterMatchNoBreak(k, p) == [ki |-> k, pgi |-> p + 1, pc |-> "page"]

\* where the scan goes on after a match on page p of keyword k: break
AfterMatch(k, p) == [ki |-> k + 1, pgi |-> 0, pc |-> "term"]

\* the keyword loop is exhausted: return found
ScanReturn ==
    /\ pcS = "term"
    /\ ki > Len(sTerms)
    /\ pcS' = "done"
    /\ UNCHANGED <<sTerms, sPages, ki, pgi, found, seen, examined>>
    /\ UNCHANGED othersS

\* if keyword in seen: continue
ScanSkipSeen ==
    /\ pcS = "term"
    /\ ki <= Len(sTerms)
    /\ AlreadySeen(sTerms[ki], seen)
    /\ ki' = ki + 1
    /\ UNCHANGED <<sTerms, sPages, pgi, found, seen, examined, pcS>>
    /\ UNCHANGED othersS

\* for page_index in range(num_pages): the page loop of a keyword starts
ScanEnterPages ==
    /\ pcS = "term"
    /\ ki <= Len(sTerms)
    /\ ~AlreadySeen(sTerms[ki], seen)
    /\ pgi' = 1
    /\ pcS' = "page"
    /\ UNCHANGED <<sTerms, sPages, ki, found, seen, examined>>
    /\ UNCHANGED othersS

\* one page of the page loop: extract its text and search the keyword
ScanPage ==
    /\ pcS = "page"
    /\ pgi <= Len(sPages)
    /\ examined' = Append(examined, <<ki, pgi>>)
    /\ IF ReSearch(sTerms[ki], ScanPageText(sPages[pgi]))
       THEN /\ found' = Append(found, sTerms[ki])
            /\ seen' = seen \cup {sTerms[ki]}
            /\ ki' = AfterMatch(ki, pgi).ki
            /\ pgi' = AfterMatch(ki, pgi).pgi
            /\ pcS' = AfterMatch(ki, pgi).pc
       ELSE /\ pgi' = pgi + 1
            /\ UNCHANGED <<found, seen, ki, pcS>>
    /\ UNCHANGED <<sTerms, sPages>>
    /\ UNCHANGED othersS

\* the page loop ends without a match: the next keyword
ScanPagesExhausted ==
    /\ pcS = "page"
    /\ pgi > Len(sPages)
    /\ ki' = ki + 1
    /\ pgi' = 0
    /\ pcS' = "term"
    /\ UNCHANGED <<sTerms, sPages, found, seen, examined>>
    /\ UNCHANGED othersS

NextScan ==
    \/ ScanReturn
    \/ ScanSkipSeen
    \/ ScanEnterPages
    \/ ScanPage
    \/ ScanPagesExhausted

SpecScan == InitScan /\ [][NextScan]_vars

\* the scan is sequential code: it runs until it returns
SpecScanFair == SpecScan /\ WF_vars(NextScan)

---------------------------------------------------------------------------
(* Claims about the keyword scan *)

\* the term matches the text of page p
TermOnPage(term, p) == IsSubstring(term, ScanPageText(sPages[p]))

MatchingTerms == {t \in Range(sTerms) : \E p \in DOMAIN sPages : TermOnPage(t, p)}

\* the first position of term t in the term list
FirstPos(t) == CHOOSE i \in DOMAIN sTerms : sTerms[i] = t /\ \A j \in 1..(i - 1) : sTerms[j] # t

\* C6: the scan returns exactly the terms that match at least one page, each
\* once, in term-list order; terms <<github, osf>> with github on page 1 and
\* both on page 2 give <<github, osf>>.
C6_ScanResult ==
    pcS = "done" =>
        /\ Range(found) = MatchingTerms
        /\ \A i, j \in DOMAIN found : i # j => found[i] # found[j]
        /\ \A i, j \in DOMAIN found : i < j => FirstPos(found[i]) < FirstPos(found[j])
        /\ found = notebook_style_keyword_scan(sPages, sTerms)
        /\ (sTerms = <<Github, Osf>>
              /\ sPages = <<Page(Github), Page(<<"g", "i", "t", "h", "u", "b", " ", "a", "n", "d", " ", "o", "s", "f">>)>>)
               => found = <<Github, Osf>>

\* C6 witness: the scan has returned a term that is listed twice and matches
\* two pages.
C6_Witness ==
    /\ pcS = "done"
    /\ \E i, j \in DOMAIN sTerms :
          /\ i < j /\ sTerms[i] = sTerms[j]
          /\ Len(sPages) >= 2 /\ TermOnPage(sTerms[i], 1) /\ TermOnPage(sTerms[i], 2)
          /\ sTerms[i] \in Range(found)
    /\ Len(found) >= 2

\* the pages examined for the term at position k, in the order examined
RECURSIVE PagesOf(_, _)
PagesOf(ex, k) ==
    IF ex = <<>> THEN <<>>
    ELSE IF Head(ex)[1] = k THEN <<Head(ex)[2]>> \o PagesOf(Tail(ex), k)
    ELSE PagesOf(Tail(ex), k)

\* for each term the pages are examined in page order from the first page,
\* none after the first page that matches, each term/page pair at most
\* once, terms in list order
ExaminedInOrder ==
    /\ \A k \in DOMAIN sTerms :
          LET ps == PagesOf(examined, k)
          IN /\ \A n \in DOMAIN ps : ps[n] = n
             /\ \A n \in DOMAIN ps : n < Len(ps) => ~TermOnPage(sTerms[k], ps[n])
    /\ \A i, j \in DOMAIN examined : i < j => examined[i][1] <= examined[j][1]
    /\ Len(examined) <= Len(sTerms) * Len(sPages)

\* C7: pages are examined in page order per term and never after the term's
\* first matching page, at most terms x pages pairs are examined, and the
\* scan terminates.
C7_FirstHitStopsAndTerminates == []ExaminedInOrder /\ <>(pcS = "done")

\* C7 witness: the scan has returned after a term matched on page 1 that
\* page 2 would match too, and page 2 was not examined for it.
C7_Witness ==
    /\ pcS = "done"
    /\ Len(sPages) >= 2
    /\ \E k \in DOMAIN sTerms :
          /\ TermOnPage(sTerms[k], 1) /\ TermOnPage(sTerms[k], 2)
          /\ PagesOf(examined, k) = <<1>>

---------------------------------------------------------------------------
(* normalize_text_for_dates *)

\* text.replace(NBSP, " ").replace(TAB, " ")
ReplaceNbspTab(t) == [i \in DOMAIN t |-> IF t[i] \in {NBSP, "\t"} THEN " " ELSE t[i]]

\* re.sub(r"\s+", " ", t), from position p on
CollapseFrom(t, p) ==
    LET marked == [i \in 1..(Len(t) - p + 1) |->
                      LET c == t[p + i - 1]
                      IN IF c \notin SpaceSet THEN c
                         ELSE IF i > 1 /\ t[p + i - 2] \in SpaceSet THEN "skip"
                         ELSE " "]
        Kept(c) == c # "skip"
    IN SelectSeq(marked, Kept)

\* a repair that separates by two spaces instead of one
InsertTwoSpacesFrom(t, p, A, B) ==
    LET marked == [k \in 1..(3 * (Len(t) - p + 1)) |->
                      LET i == p + ((k + 2) \div 3) - 1
                      IN IF k % 3 = 1 THEN t[i]
                         ELSE IF i < Len(t) /\ t[i] \in A /\ t[i + 1] \in B THEN " "
                         ELSE "skip"]
        Kept(c) == c # "skip"
    IN SelectSeq(marked, Kept)

\* re.sub(r"(A)(B)", r"\1 \2", t): a space between a character of class A
\* and a following character of class B, from position p on
InsertSpaceFrom(t, p, A, B) ==
    LET marked == [k \in 1..(2 * (Len(t) - p + 1)) |->
                      LET i == p + ((k + 1) \div 2) - 1
                      IN IF k % 2 = 1 THEN t[i]
                         ELSE IF i < Len(t) /\ t[i] \in A /\ t[i + 1] \in B THEN " "
                         ELSE "skip"]
        Kept(c) == c # "skip"
    IN SelectSeq(marked, Kept)

\* the start of the trailing run of white space (Len(t)+1 when none)
RECURSIVE TrailStart(_, _)
TrailStart(t, q) ==
    IF q = 0 THEN 1
    ELSE IF t[q] \in SpaceSet THEN TrailStart(t, q - 1)
    ELSE q + 1

\* str.strip()
Strip(t) == SubSeq(t, RunEnd(t, 1, SpaceSet), TrailStart(t, Len(t)) - 1)

normalize_text_for_dates(text) ==
    IF text = <<>> THEN <<>>
    ELSE LET t1 == ReplaceNbspTab(text)
             t2 == CollapseFrom(t1, 1)
             t3 == InsertSpaceFrom(t2, 1, DigitSet, LetterSet)
             t4 == InsertSpaceFrom(t3, 1, LetterSet, DigitSet)
         IN Strip(t4)

---------------------------------------------------------------------------
(* The four Accepted patterns, on normalized text *)

AcceptedWord == <<"a", "c", "c", "e", "p", "t", "e", "d">>
AcceptedLen == 8

NoCapture == [ok |-> FALSE, g1 |-> <<>>, g2 |-> <<>>, g3 |-> <<>>]
Capture(a, b, c) == [ok |-> TRUE, g1 |-> a, g2 |-> b, g3 |-> c]

\* \bAccepted\b at p, ignoring case
AcceptedAt(t, p) ==
    /\ p + AcceptedLen - 1 <= Len(t)
    /\ LowerChar(t[p]) = "a"
    /\ Lower(SubSeq(t, p, p + AcceptedLen - 1)) = AcceptedWord
    /\ WordBoundary(t, p)
    /\ WordBoundary(t, p + AcceptedLen)

\* the position after \s*:?\s* from the end of Accepted at p
AfterLead(t, p) ==
    LET a == RunEnd(t, p + AcceptedLen, SpaceSet)
        b == IF a <= Len(t) /\ t[a] = ":" THEN a + 1 ELSE a
    IN RunEnd(t, b, SpaceSet)

\* (\d{4})\b at s: four digits, then no word character
YearAt(t, s) == RunEnd(t, s, DigitSet) - s = 4 /\ ~IsWordAt(t, s + 4)

\* \d{1,2} at s with no further digit after it
ShortNumberAt(t, s) ==
    RunEnd(t, s, DigitSet) - s >= 1 /\ RunEnd(t, s, DigitSet) - s <= 2

\* ACC_DMY at p: Accepted :? (\d{1,2}) \s+ ([A-Za-z]+) \s+ (\d{4})\b
MatchDMY(t, p) ==
    IF ~AcceptedAt(t, p) THEN NoCapture
    ELSE LET s1 == AfterLead(t, p)
             e1 == RunEnd(t, s1, DigitSet)
             s2 == RunEnd(t, e1, SpaceSet)
             e2 == RunEnd(t, s2, LetterSet)
             s3 == RunEnd(t, e2, SpaceSet)
         IN IF /\ ShortNumberAt(t, s1)
               /\ s2 > e1 /\ e2 > s2 /\ s3 > e2
               /\ YearAt(t, s3)
            THEN Capture(SubSeq(t, s1, e1 - 1), SubSeq(t, s2, e2 - 1),
                         SubSeq(t, s3, s3 + 3))
            ELSE NoCapture

\* ACC_MDY at p: Accepted :? ([A-Za-z]+) \s+ (\d{1,2}) ,? \s+ (\d{4})\b
MatchMDY(t, p) ==
    IF ~AcceptedAt(t, p) THEN NoCapture
    ELSE LET s1 == AfterLead(t, p)
             e1 == RunEnd(t, s1, LetterSet)
             s2 == RunEnd(t, e1, SpaceSet)
             e2 == RunEnd(t, s2, DigitSet)
             c == IF e2 <= Len(t) /\ t[e2] = "," THEN e2 + 1 ELSE e2
             s3 == RunEnd(t, c, SpaceSet)
         IN IF /\ e1 > s1 /\ s2 > e1
               /\ ShortNumberAt(t, s2)
               /\ s3 > c
               /\ YearAt(t, s3)
            THEN Capture(SubSeq(t, s1, e1 - 1), SubSeq(t, s2, e2 - 1),
                         SubSeq(t, s3, s3 + 3))
            ELSE NoCapture

\* ACC_YMD_DASH at p: Accepted :? (\d{4})-(\d{1,2})-(\d{1,2})\b
MatchYMD(t, p) ==
    IF ~AcceptedAt(t, p) THEN NoCapture
    ELSE LET s1 == AfterLead(t, p)
             e1 == RunEnd(t, s1, DigitSet)
             e2 == RunEnd(t, e1 + 1, DigitSet)
             e3 == RunEnd(t, e2 + 1, DigitSet)
         IN IF /\ e1 - s1 = 4 /\ e1 <= Len(t) /\ t[e1] = "-"
               /\ ShortNumberAt(t, e1 + 1) /\ e2 <= Len(t) /\ t[e2] = "-"
               /\ ShortNumberAt(t, e2 + 1) /\ ~IsWordAt(t, e3)
            THEN Capture(SubSeq(t, s1, e1 - 1), SubSeq(t, e1 + 1, e2 - 1),
                         SubSeq(t, e2 + 1, e3 - 1))
            ELSE NoCapture

\* ACC_DMY_SLASH at p: Accepted :? (\d{1,2})/(\d{1,2})/(\d{4})\b
MatchSlash(t, p) ==
    IF ~AcceptedAt(t, p) THEN NoCapture
    ELSE LET s1 == AfterLead(t, p)
             e1 == RunEnd(t, s1, DigitSet)
             e2 == RunEnd(t, e1 + 1, DigitSet)
         IN IF /\ ShortNumberAt(t, s1) /\ e1 <= Len(t) /\ t[e1] = "/"
               /\ ShortNumberAt(t, e1 + 1) /\ e2 <= Len(t) /\ t[e2] = "/"
               /\ YearAt(t, e2 + 1)
            THEN Capture(SubSeq(t, s1, e1 - 1), SubSeq(t, e1 + 1, e2 - 1),
                         SubSeq(t, e2 + 1, e2 + 4))
            ELSE NoCapture

\* the four patterns, in the order parse_accepted_date tries them
PatternOrder == <<"dmy", "mdy", "ymd", "slash">>

MatchAt(pat, t, p) ==
    CASE pat = "dmy" -> MatchDMY(t, p)
      [] pat = "mdy" -> MatchMDY(t, p)
      [] pat = "ymd" -> MatchYMD(t, p)
      [] pat = "slash" -> MatchSlash(t, p)

\* pattern.search(t): the captures of the leftmost match, from position p on
SearchFrom(pat, t, p) ==
    LET hits == {q \in p..Len(t) : MatchAt(pat, t, q).ok}
    IN IF hits = {} THEN NoCapture
       ELSE MatchAt(pat, t, CHOOSE q \in hits : \A r \in hits : q <= r)

Search(pat, t) == SearchFrom(pat, t, 1)

---------------------------------------------------------------------------
(* parse_accepted_date *)

DigitValue(c) == (CHOOSE i \in DOMAIN DigitChars : DigitChars[i] = c) - 1

\* int(s) of a run of digits
RECURSIVE ToInt(_)
ToInt(s) ==
    IF s = <<>> THEN 0
    ELSE 10 * ToInt(SubSeq(s, 1, Len(s) - 1)) + DigitValue(s[Len(s)])

MONTH_LOOKUP ==
    (<<"j", "a", "n">> :> 1) @@ (<<"j", "a", "n", "u", "a", "r", "y">> :> 1) @@
    (<<"f", "e", "b">> :> 2) @@ (<<"f", "e", "b", "r", "u", "a", "r", "y">> :> 2) @@
    (<<"m", "a", "r">> :> 3) @@ (<<"m", "a", "r", "c", "h">> :> 3) @@
    (<<"a", "p", "r">> :> 4) @@ (<<"a", "p", "r", "i", "l">> :> 4) @@
    (<<"m", "a", "y">> :> 5) @@
    (<<"j", "u", "n">> :> 6) @@ (<<"j", "u", "n", "e">> :> 6) @@
    (<<"j", "u", "l">> :> 7) @@ (<<"j", "u", "l", "y">> :> 7) @@
    (<<"a", "u", "g">> :> 8) @@ (<<"a", "u", "g", "u", "s", "t">> :> 8) @@
    (<<"s", "e", "p">> :> 9) @@ (<<"s", "e", "p", "t">> :> 9) @@ (<<"s", "e", "p", "t", "e", "m", "b", "e", "r">> :> 9) @@
    (<<"o", "c", "t">> :> 10) @@ (<<"o", "c", "t", "o", "b", "e", "r">> :> 10) @@
    (<<"n", "o", "v">> :> 11) @@ (<<"n", "o", "v", "e", "m", "b", "e", "r">> :> 11) @@
    (<<"d", "e", "c">> :> 12) @@ (<<"d", "e", "c", "e", "m", "b", "e", "r">> :> 12)

\* MONTH_LOOKUP.get(key): 0 stands for None
LookupGet(key) == IF key \in DOMAIN MONTH_LOOKUP THEN MONTH_LOOKUP[key] ELSE 0

\* s[:3]
Take3(s) == SubSeq(s, 1, IF Len(s) < 3 THEN Len(s) ELSE 3)

\* MonthOf without the fall-back to the first three letters
MonthOfExact(mon) == LookupGet(Lower(mon))

\* MONTH_LOOKUP.get(mon.lower(), MONTH_LOOKUP.get(mon.lower()[:3]))
MonthOf(mon) ==
    IF Lower(mon) \in DOMAIN MONTH_LOOKUP THEN MONTH_LOOKUP[Lower(mon)]
    ELSE LookupGet(Take3(Lower(mon)))

IsLeap(y) == y % 4 = 0 /\ (y % 100 # 0 \/ y % 400 = 0)

DaysInMonth(y, m) ==
    IF m = 2 THEN (IF IsLeap(y) THEN 29 ELSE 28)
    ELSE IF m \in {4, 6, 9, 11} THEN 30
    ELSE 31

None == <<>>

\* MakeDate that takes any day up to 31 in any month
MakeDateAnyMonthLength(y, m, d) ==
    IF y >= 1 /\ y <= 9999 /\ m >= 1 /\ m <= 12 /\ d >= 1 /\ d <= 31
    THEN <<y, m, d>>
    ELSE None

\* try: return dt.date(y, m, d)  except ValueError: return None
MakeDate(y, m, d) ==
    IF y >= 1 /\ y <= 9999 /\ m >= 1 /\ m <= 12 /\ d >= 1 /\ d <= DaysInMonth(y, m)
    THEN <<y, m, d>>
    ELSE None

\* Outcome that returns None at a month-name pattern whose month token is
\* in no way a month, instead of going on to the next pattern
OutcomeFirstMatchReturns(pat, m) ==
    CASE pat = "dmy" ->
            [decided |-> TRUE,
             value |-> IF MonthOf(m.g2) # 0
                       THEN MakeDate(ToInt(m.g3), MonthOf(m.g2), ToInt(m.g1))
                       ELSE None]
      [] pat = "mdy" ->
            [decided |-> TRUE,
             value |-> IF MonthOf(m.g1) # 0
                       THEN MakeDate(ToInt(m.g3), MonthOf(m.g1), ToInt(m.g2))
                       ELSE None]
      [] pat = "ymd" ->
            [decided |-> TRUE,
             value |-> MakeDate(ToInt(m.g1), ToInt(m.g2), ToInt(m.g3))]
      [] pat = "slash" ->
            [decided |-> TRUE,
             value |-> MakeDate(ToInt(m.g3), ToInt(m.g2), ToInt(m.g1))]

\* what a match of pattern pat gives: decided says whether the function
\* returns at this pattern, value what it returns
Outcome(pat, m) ==
    CASE pat = "dmy" ->
            IF MonthOf(m.g2) # 0
            THEN [decided |-> TRUE,
                  value |-> MakeDate(ToInt(m.g3), MonthOf(m.g2), ToInt(m.g1))]
            ELSE [decided |-> FALSE, value |-> None]
      [] pat = "mdy" ->
            IF MonthOf(m.g1) # 0
            THEN [decided |-> TRUE,
                  value |-> MakeDate(ToInt(m.g3), MonthOf(m.g1), ToInt(m.g2))]
            ELSE [decided |-> FALSE, value |-> None]
      [] pat = "ymd" ->
            [decided |-> TRUE,
             value |-> MakeDate(ToInt(m.g1), ToInt(m.g2), ToInt(m.g3))]
      [] pat = "slash" ->
            [decided |-> TRUE,
             value |-> MakeDate(ToInt(m.g3), ToInt(m.g2), ToInt(m.g1))]

\* the pattern tried after pat, "done" after the last one (return None)
NextPattern(pat) ==
    CASE pat = "dmy" -> "mdy"
      [] pat = "mdy" -> "ymd"
      [] pat = "ymd" -> "slash"
      [] pat = "slash" -> "done"

---------------------------------------------------------------------------
(* parse_accepted_date, pattern by pattern *)

MaxClauses == 2

\* pieces of first-page text that a PDF may hold around its Accepted line
ClausePool ==
    { <<"A", "c", "c", "e", "p", "t", "e", "d", ":">> \o <<NBSP>> \o <<"2", " ", "A", "p", "r", "i", "l", "\n", "2", "0", "2", "5">>,
      <<"A", "c", "c", "e", "p", "t", "e", "d", " ", "3", "1", " ", "A", "p", "r", "i", "l", " ", "2", "0", "2", "5">>,
      <<"A", "c", "c", "e", "p", "t", "e", "d", ":", "2", "A", "p", "r", "i", "l", "2", "0", "2", "5">>,
      <<"a", "c", "c", "e", "p", "t", "e", "d", " ", "2", " ", "F", "o", "o", " ", "2", "0", "2", "5">>,
      <<"A", "c", "c", "e", "p", "t", "e", "d", " ", "2", " ", "M", "a", "r", "z", "i", "p", "a", "n", " ", "2", "0", "2", "5">>,
      <<"A", "C", "C", "E", "P", "T", "E", "D", ":", " ", "2", "9", " ", "f", "e", "b", " ", "2", "0", "2", "5">>,
      <<"A", "c", "c", "e", "p", "t", "e", "d", "\t", "1", "2", " ", "S", "E", "P", "T", " ", "2", "0", "2", "5", ".">>,
      <<"A", "c", "c", "e", "p", "t", "e", "d", ":", " ", "A", "p", "r", "i", "l", " ", "2", ",", " ", "2", "0", "2", "5">>,
      <<"A", "c", "c", "e", "p", "t", "e", "d", " ", "A", "p", "r", "i", "l", " ", "3", "1", " ", "2", "0", "2", "5">>,
      <<"A", "c", "c", "e", "p", "t", "e", "d", ":", " ", "F", "o", "o", " ", "2", ",", " ", "2", "0", "2", "5">>,
      <<"A", "c", "c", "e", "p", "t", "e", "d", " ", "D", "e", "c", "a", "f", " ", "3", " ", "2", "0", "2", "5">>,
      <<"A", "c", "c", "e", "p", "t", "e", "d", ":", " ", "2", "0", "2", "5", "-", "0", "4", "-", "0", "2">>,
      <<"A", "c", "c", "e", "p", "t", "e", "d", " ", "2", "0", "2", "5", "-", "1", "3", "-", "0", "2">>,
      <<"A", "c", "c", "e", "p", "t", "e", "d", ":", " ", "2", "0", "2", "4", "-", "0", "2", "-", "2", "9", ",">>,
      <<"A", "c", "c", "e", "p", "t", "e", "d", ":", " ", "0", "2", "/", "0", "4", "/", "2", "0", "2", "5">>,
      <<"A", "c", "c", "e", "p", "t", "e", "d", " ", "2", "/", "1", "3", "/", "2", "0", "2", "5">>,
      <<"R", "e", "c", "e", "i", "v", "e", "d", ":", " ", "1", " ", "M", "a", "r", "c", "h", " ", "2", "0", "2", "5">>,
      <<"A", "c", "c", "e", "p", "t", "e", "d", " ", "f", "o", "r", " ", "p", "u", "b", "l", "i", "c", "a", "t", "i", "o", "n", " ", "2", "0", "2", "5">> }

ClauseLists == UNION {[1..k -> ClausePool] : k \in 0..MaxClauses}

\* the clauses, one per line
RECURSIVE JoinLines(_)
JoinLines(cs) ==
    IF cs = <<>> THEN <<>>
    ELSE IF Len(cs) = 1 THEN cs[1]
    ELSE cs[1] \o <<"\n">> \o JoinLines(Tail(cs))

DateTexts == {JoinLines(cs) : cs \in ClauseLists}

InitDate ==
    /\ dText \in DateTexts
    /\ dNorm = <<>>
    /\ tried = <<>>
    /\ dResult = None
    /\ pcD = "start"
    /\ IdleAllBut("D")

\* t = normalize_text_for_dates(text); if not t: return None
DateNormalize ==
    /\ pcD = "start"
    /\ dNorm' = normalize_text_for_dates(dText)
    /\ pcD' = IF dNorm' = <<>> THEN "done" ELSE PatternOrder[1]
    /\ UNCHANGED <<dText, tried, dResult>>
    /\ UNCHANGED othersD

\* m = PATTERN.search(t); if m: ... return; otherwise the next pattern
TryPattern(pat) ==
    /\ pcD = pat
    /\ tried' = Append(tried, pat)
    /\ LET m == Search(pat, dNorm)
       IN IF m.ok /\ Outcome(pat, m).decided
          THEN /\ dResult' = Outcome(pat, m).value
               /\ pcD' = "done"
          ELSE /\ dResult' = None
               /\ pcD' = NextPattern(pat)
    /\ UNCHANGED <<dText, dNorm>>
    /\ UNCHANGED othersD

\* m = ACC_DMY.search(t)
TryDMY == pcD = "dmy" /\ TryPattern("dmy")

\* m = ACC_MDY.search(t)
TryMDY == pcD = "mdy" /\ TryPattern("mdy")

\* m = ACC_YMD_DASH.search(t)
TryYMD == pcD = "ymd" /\ TryPattern("ymd")

\* m = ACC_DMY_SLASH.search(t); return None after it
TrySlash == pcD = "slash" /\ TryPattern("slash")

NextDate ==
    \/ DateNormalize
    \/ TryDMY
    \/ TryMDY
    \/ TryYMD
    \/ TrySlash

SpecDate == InitDate /\ [][NextDate]_vars

---------------------------------------------------------------------------
(* Claims about parse_accepted_date *)

PatternPos(pat) == CHOOSE i \in DOMAIN PatternOrder : PatternOrder[i] = pat

\* the pattern matches somewhere in the normalized text
Matches(pat) == Search(pat, dNorm).ok

\* the month token a month-name pattern captured
MonthToken(pat) ==
    IF pat = "dmy" THEN Search(pat, dNorm).g2 ELSE Search(pat, dNorm).g1

IsMonthNamePattern(pat) == pat \in {"dmy", "mdy"}

\* the patterns are tried in the fixed order, from the first one
TriedInOrder == \A i \in DOMAIN tried : tried[i] = PatternOrder[i]

\* the numbers day, month, year the match of pat stands for (month 0: the
\* month token is in no way a month)
CapturedYMD(pat) ==
    LET m == Search(pat, dNorm)
    IN CASE pat = "dmy" -> <<ToInt(m.g3), MonthOf(m.g2), ToInt(m.g1)>>
         [] pat = "mdy" -> <<ToInt(m.g3), MonthOf(m.g1), ToInt(m.g2)>>
         [] pat = "ymd" -> <<ToInt(m.g1), ToInt(m.g2), ToInt(m.g3)>>
         [] pat = "slash" -> <<ToInt(m.g3), ToInt(m.g2), ToInt(m.g1)>>

\* a date of the calendar (years 1 to 9999)
IsCalendarDate(d) ==
    /\ d[1] \in 1..9999
    /\ d[2] \in 1..12
    /\ d[3] >= 1
    /\ \/ d[3] <= 28
       \/ d[3] <= 30 /\ d[2] # 2
       \/ d[3] = 31 /\ d[2] \in {1, 3, 5, 7, 8, 10, 12}
       \/ d[3] = 29 /\ d[2] = 2 /\ d[1] % 4 = 0 /\ (d[1] % 100 # 0 \/ d[1] % 400 = 0)

\* C8 (as claimed): the patterns are tried in order and no pattern is tried
\* after a pattern that matched.
C8_FirstMatchWins ==
    /\ TriedInOrder
    /\ \A i, j \in DOMAIN tried : (i < j) => ~Matches(tried[i])

\* pat matched and, for a month-name pattern, its month token resolved
Decides(pat) ==
    /\ Matches(pat)
    /\ IsMonthNamePattern(pat) => CapturedYMD(pat)[2] # 0

\* C8 (amended): the patterns are tried in order; no pattern is tried after
\* one that matched with a month that resolves (the numeric patterns always
\* do); that first deciding pattern gives the result: its date, or None when
\* the date is not of the calendar; with no deciding pattern all four are
\* tried and the result is None.
C8_FirstDecidingMatchWins ==
    /\ TriedInOrder
    /\ \A i, j \in DOMAIN tried : (i < j) => ~Decides(tried[i])
    /\ (pcD = "done" /\ dNorm # <<>>) =>
          LET last == tried[Len(tried)]
          IN IF Decides(last)
             THEN dResult = (IF IsCalendarDate(CapturedYMD(last))
                             THEN CapturedYMD(last) ELSE None)
             ELSE Len(tried) = Len(PatternOrder) /\ dResult = None

\* C8 witness: the day-monthname-year pattern matched with a token that is
\* no month, and a later pattern gave the date.
C8_Witness ==
    /\ pcD = "done"
    /\ Len(tried) >= 3
    /\ Matches("dmy")
    /\ dResult # None

\* the first pattern, in order, that matches the normalized text
FirstMatching ==
    PatternOrder[CHOOSE i \in DOMAIN PatternOrder :
                    /\ Matches(PatternOrder[i])
                    /\ \A j \in 1..(i - 1) : ~Matches(PatternOrder[j])]

\* C9: when the first matching pattern captures a date that is not of the
\* calendar, the result is None and no later pattern is tried.
C9_InvalidDateIsAbsent ==
    (pcD = "done" /\ \E i \in DOMAIN PatternOrder : Matches(PatternOrder[i])) =>
        LET p == FirstMatching
        IN (CapturedYMD(p)[2] # 0 /\ ~IsCalendarDate(CapturedYMD(p))) =>
              /\ dResult = None
              /\ tried[Len(tried)] = p

\* C9 witness: the first matching pattern captured a date that is not of the
\* calendar, a later pattern matches a date of the calendar, and the parse
\* ended with None.
C9_Witness ==
    /\ pcD = "done"
    /\ \E i \in DOMAIN PatternOrder : Matches(PatternOrder[i])
    /\ CapturedYMD(FirstMatching)[2] # 0
    /\ ~IsCalendarDate(CapturedYMD(FirstMatching))
    /\ \E j \in DOMAIN PatternOrder :
          /\ j > PatternPos(FirstMatching)
          /\ Matches(PatternOrder[j])
          /\ IsCalendarDate(CapturedYMD(PatternOrder[j]))
    /\ dResult = None

FullMonthNames ==
    << <<"j", "a", "n", "u", "a", "r", "y">>, <<"f", "e", "b", "r", "u", "a", "r", "y">>, <<"m", "a", "r", "c", "h">>, <<"a", "p", "r", "i", "l">>, <<"m", "a", "y">>, <<"j", "u", "n", "e">>,
       <<"j", "u", "l", "y">>, <<"a", "u", "g", "u", "s", "t">>, <<"s", "e", "p", "t", "e", "m", "b", "e", "r">>, <<"o", "c", "t", "o", "b", "e", "r">>, <<"n", "o", "v", "e", "m", "b", "e", "r">>,
       <<"d", "e", "c", "e", "m", "b", "e", "r">> >>

\* the number of the month whose full name starts with the three letters a
\* (0 when there is none)
MonthOfAbbrev(a) ==
    IF Len(a) = 3 /\ \E i \in DOMAIN FullMonthNames : SubSeq(FullMonthNames[i], 1, 3) = a
    THEN CHOOSE i \in DOMAIN FullMonthNames : SubSeq(FullMonthNames[i], 1, 3) = a
    ELSE 0

\* the number of the month a full name or a 3-letter abbreviation names
MonthOfNameOrAbbrev(tok) ==
    IF \E i \in DOMAIN FullMonthNames : FullMonthNames[i] = tok
    THEN CHOOSE i \in DOMAIN FullMonthNames : FullMonthNames[i] = tok
    ELSE MonthOfAbbrev(tok)

\* the month-name pattern pat was tried, matched, and the function returned
\* a date at it
GaveDate(pat) ==
    /\ pcD = "done" /\ tried # <<>> /\ tried[Len(tried)] = pat
    /\ Matches(pat) /\ dResult # None

\* C10 (as claimed): a month-name pattern gives a date only if its month
\* token is, ignoring case, a full month name or a 3-letter abbreviation.
C10_OnlyNameOrAbbrev ==
    \A pat \in {"dmy", "mdy"} :
        GaveDate(pat) => MonthOfNameOrAbbrev(Lower(MonthToken(pat))) # 0

\* the month a token resolves to: by its full name, by "sept", or by its
\* first three letters when they abbreviate a month
MonthOfNameOrPrefix(tok) ==
    IF MonthOfNameOrAbbrev(tok) # 0 THEN MonthOfNameOrAbbrev(tok)
    ELSE MonthOfAbbrev(SubSeq(tok, 1, IF Len(tok) < 3 THEN Len(tok) ELSE 3))

\* C10 (amended): in the two month-name patterns the token resolves to the
\* month whose full name or 3-letter abbreviation it is, or else whose
\* 3-letter abbreviation its first three letters are, ignoring case; then
\* the function returns at that pattern, with that month when the date is of
\* the calendar. Any other token gives no date from that pattern and the
\* next pattern is tried.
C10_NameOrPrefix ==
    \A i \in DOMAIN tried :
        (IsMonthNamePattern(tried[i]) /\ Matches(tried[i])) =>
            LET mo == MonthOfNameOrPrefix(Lower(MonthToken(tried[i])))
                c == CapturedYMD(tried[i])
            IN IF mo # 0
               THEN /\ pcD = "done" /\ i = Len(tried)
                    /\ dResult = (IF IsCalendarDate(<<c[1], mo, c[3]>>)
                                  THEN <<c[1], mo, c[3]>> ELSE None)
               ELSE ~(pcD = "done" /\ i = Len(tried))

\* C10 witness: "Marzipan" was captured by the day-monthname-year pattern
\* and the function returned the 2nd of March.
C10_Witness ==
    /\ GaveDate("dmy")
    /\ Lower(MonthToken("dmy")) = <<"m", "a", "r", "z", "i", "p", "a", "n">>
    /\ dResult = <<2025, 3, 2>>

---------------------------------------------------------------------------
(* normalize_text_for_dates applied to its own output *)

MaxNormLen == 4

\* a digit, two letters, the four kinds of white space and a punctuation
\* mark
NormAlphabet == {"1", "a", "Z", " ", "\t", "\n", NBSP, ":"}

RECURSIVE StringsUpTo(_, _)
StringsUpTo(A, n) ==
    IF n = 0 THEN {<<>>}
    ELSE LET shorter == StringsUpTo(A, n - 1)
         IN shorter \cup {Append(s, c) : s \in {x \in shorter : Len(x) = n - 1}, c \in A}

NormTexts == StringsUpTo(NormAlphabet, MaxNormLen)

InitNorm ==
    /\ nText \in NormTexts
    /\ nOnce = <<>>
    /\ nTwice = <<>>
    /\ pcN = "start"
    /\ IdleAllBut("N")

\* t = normalize_text_for_dates(text)
NormalizeOnce ==
    /\ pcN = "start"
    /\ nOnce' = normalize_text_for_dates(nText)
    /\ pcN' = "once"
    /\ UNCHANGED <<nText, nTwice>>
    /\ UNCHANGED othersN

\* normalize_text_for_dates(t)
NormalizeAgain ==
    /\ pcN = "once"
    /\ nTwice' = normalize_text_for_dates(nOnce)
    /\ pcN' = "done"
    /\ UNCHANGED <<nText, nOnce>>
    /\ UNCHANGED othersN

NextNorm == NormalizeOnce \/ NormalizeAgain

SpecNorm == InitNorm /\ [][NextNorm]_vars

\* C11: normalizing normalized text changes nothing, the empty text gives
\* the empty text, and the result holds no white space but single spaces
\* between other characters.
C11_NormalizeIdempotent ==
    /\ pcN = "done" => nTwice = nOnce
    /\ (pcN # "start" /\ nText = <<>>) => nOnce = <<>>
    /\ pcN # "start" =>
          /\ \A i \in DOMAIN nOnce : nOnce[i] \in SpaceSet => nOnce[i] = " "
          /\ \A i \in DOMAIN nOnce :
                nOnce[i] = " " => (i > 1 /\ i < Len(nOnce) /\ nOnce[i + 1] # " ")

\* C11 witness: a text with a tab, a digit stuck to a letter and a newline
\* was normalized twice.
C11_Witness ==
    /\ pcN = "done"
    /\ nText = <<"\t", "1", "a", "\n">>
    /\ nOnce = <<"1", " ", "a">>

---------------------------------------------------------------------------
(* The three identifier extractors on one input *)

MaxDoiTail == 3

DoiLeads == {<<>>, <<"d", "o", "i", ":">>, <<"x", "1", "0", ".">>, <<"1", "0", ".", "1", "0", "0", "0", "/", "A", ",", " ">>}
DoiRegistrants == {<<"1", "0", ".", "1", "0", "0", "2">>, <<"1", "0", ".", "1", "2", "3">>, <<"1", "0", ".", "1", "2", "3", "4", "5", "6", "7", "8", "9", "0">>}
DoiTailAlphabet == {"a", "B", "1", ".", ")", ",", ";", "]", " ", "-"}

\* "" and the texts lead + "10." + digits + "/" + tail
DoiTexts ==
    {<<>>} \cup
    {l \o r \o <<"/">> \o tl :
        l \in DoiLeads, r \in DoiRegistrants,
        tl \in StringsUpTo(DoiTailAlphabet, MaxDoiTail)}

InitDoi ==
    /\ iText \in DoiTexts
    /\ iSorter = <<>>
    /\ iAffil = <<>>
    /\ iLink = <<>>
    /\ pcI = "sorter"
    /\ IdleAllBut("I")

\* parse_doi(text), sorter
ExtractSorter ==
    /\ pcI = "sorter"
    /\ iSorter' = parse_doi(iText)
    /\ pcI' = "affil"
    /\ UNCHANGED <<iText, iAffil, iLink>>
    /\ UNCHANGED othersI

\* parse_doi(text), affiliation updater
ExtractAffil ==
    /\ pcI = "affil"
    /\ iAffil' = affil_parse_doi(iText)
    /\ pcI' = "link"
    /\ UNCHANGED <<iText, iSorter, iLink>>
    /\ UNCHANGED othersI

\* parse_doi_from_link(text), keyword updater
ExtractLink ==
    /\ pcI = "link"
    /\ iLink' = parse_doi_from_link(iText)
    /\ pcI' = "done"
    /\ UNCHANGED <<iText, iSorter, iAffil>>
    /\ UNCHANGED othersI

NextDoi == ExtractSorter \/ ExtractAffil \/ ExtractLink

SpecDoi == InitDoi /\ [][NextDoi]_vars

\* the text from position p on reads "10.", 4 to 9 digits, "/" and at least
\* one character that is no white space, quote or angle bracket
IdentifierShapedAt(t, p) ==
    /\ p + 2 <= Len(t) /\ SubSeq(t, p, p + 2) = DoiPrefix
    /\ \E n \in DoiMinDigits..DoiMaxDigits :
          /\ p + 3 + n + 1 <= Len(t)
          /\ \A k \in 0..(n - 1) : t[p + 3 + k] \in DigitSet
          /\ t[p + 3 + n] = "/"
          /\ t[p + 3 + n + 1] \notin DoiStopSet

\* C12: the three extractors return the same value; it is empty exactly
\* when the pattern matches nowhere; otherwise it is the lower-cased leftmost
\* match, it starts where the text is identifier-shaped, and it does not
\* end with one of ) . , ; ]
C12_ExtractorsAgree ==
    pcI = "done" =>
        /\ iSorter = iAffil /\ iAffil = iLink
        /\ LET m == DoiSearch(iText)
           IN IF m[1] = 0
              THEN /\ iSorter = <<>>
                   /\ \A p \in DOMAIN iText : DoiMatchEnd(iText, p) = 0
              ELSE /\ iSorter = Lower(SubSeq(iText, m[1], m[2] - 1))
                   /\ IdentifierShapedAt(iText, m[1])
                   /\ \A p \in 1..(m[1] - 1) : DoiMatchEnd(iText, p) = 0
                   /\ iSorter[Len(iSorter)] \notin DoiTrailSet

\* C12 witness: an identifier followed by ")." in a text that holds an
\* earlier identifier too; the extractors returned the earlier one.
C12_Witness ==
    /\ pcI = "done"
    /\ iText = <<"1", "0", ".", "1", "0", "0", "0", "/", "A", ",", " ", "1", "0", ".", "1", "0", "0", "2", "/", "B", ")", ".">>
    /\ iLink = <<"1", "0", ".", "1", "0", "0", "0", "/", "a">>

---------------------------------------------------------------------------
(* build_country_matchers: the country lexicon *)

\* ALIASES, in the order of the table: <<key, canonical name>>
ALIASES ==
    << <<<<"u", "s", "a">>, <<"U", "n", "i", "t", "e", "d", " ", "S", "t", "a", "t", "e", "s">>>>,
       <<<<"u", ".", "s", ".", "a", ".">>, <<"U", "n", "i", "t", "e", "d", " ", "S", "t", "a", "t", "e", "s">>>>,
       <<<<"u", ".", "s", ".">>, <<"U", "n", "i", "t", "e", "d", " ", "S", "t", "a", "t", "e", "s">>>>,
       <<<<"u", "n", "i", "t", "e", "d", " ", "s", "t", "a", "t", "e", "s", " ", "o", "f", " ", "a", "m", "e", "r", "i", "c", "a">>, <<"U", "n", "i", "t", "e", "d", " ", "S", "t", "a", "t", "e", "s">>>>,
       <<<<"u", "k">>, <<"U", "n", "i", "t", "e", "d", " ", "K", "i", "n", "g", "d", "o", "m">>>>,
       <<<<"u", ".", "k", ".">>, <<"U", "n", "i", "t", "e", "d", " ", "K", "i", "n", "g", "d", "o", "m">>>>,
       <<<<"e", "n", "g", "l", "a", "n", "d">>, <<"U", "n", "i", "t", "e", "d", " ", "K", "i", "n", "g", "d", "o", "m">>>>,
       <<<<"s", "c", "o", "t", "l", "a", "n", "d">>, <<"U", "n", "i", "t", "e", "d", " ", "K", "i", "n", "g", "d", "o", "m">>>>,
       <<<<"w", "a", "l", "e", "s">>, <<"U", "n", "i", "t", "e", "d", " ", "K", "i", "n", "g", "d", "o", "m">>>>,
       <<<<"r", "u", "s", "s", "i", "a">>, <<"R", "u", "s", "s", "i", "a", "n", " ", "F", "e", "d", "e", "r", "a", "t", "i", "o", "n">>>>,
       <<<<"s", "o", "u", "t", "h", " ", "k", "o", "r", "e", "a">>, <<"K", "o", "r", "e", "a", ",", " ", "R", "e", "p", "u", "b", "l", "i", "c", " ", "o", "f">>>>,
       <<<<"n", "o", "r", "t", "h", " ", "k", "o", "r", "e", "a">>, <<"K", "o", "r", "e", "a", ",", " ", "D", "e", "m", "o", "c", "r", "a", "t", "i", "c", " ", "P", "e", "o", "p", "l", "e", "'", "s", " ", "R", "e", "p", "u", "b", "l", "i", "c", " ", "o", "f">>>>,
       <<<<"i", "r", "a", "n">>, <<"I", "r", "a", "n", ",", " ", "I", "s", "l", "a", "m", "i", "c", " ", "R", "e", "p", "u", "b", "l", "i", "c", " ", "o", "f">>>>,
       <<<<"t", "a", "n", "z", "a", "n", "i", "a">>, <<"T", "a", "n", "z", "a", "n", "i", "a", ",", " ", "U", "n", "i", "t", "e", "d", " ", "R", "e", "p", "u", "b", "l", "i", "c", " ", "o", "f">>>>,
       <<<<"v", "i", "e", "t", " ", "n", "a", "m">>, <<"V", "i", "e", "t", " ", "N", "a", "m">>>>,
       <<<<"c", "z", "e", "c", "h", " ", "r", "e", "p", "u", "b", "l", "i", "c">>, <<"C", "z", "e", "c", "h", "i", "a">>>>,
       <<<<"b", "o", "l", "i", "v", "i", "a">>, <<"B", "o", "l", "i", "v", "i", "a", ",", " ", "P", "l", "u", "r", "i", "n", "a", "t", "i", "o", "n", "a", "l", " ", "S", "t", "a", "t", "e", " ", "o", "f">>>>,
       <<<<"v", "e", "n", "e", "z", "u", "e", "l", "a">>, <<"V", "e", "n", "e", "z", "u", "e", "l", "a", ",", " ", "B", "o", "l", "i", "v", "a", "r", "i", "a", "n", " ", "R", "e", "p", "u", "b", "l", "i", "c", " ", "o", "f">>>>,
       <<<<"m", "o", "l", "d", "o", "v", "a">>, <<"M", "o", "l", "d", "o", "v", "a", ",", " ", "R", "e", "p", "u", "b", "l", "i", "c", " ", "o", "f">>>>,
       <<<<"l", "a", "o", "s">>, <<"L", "a", "o", " ", "P", "e", "o", "p", "l", "e", "'", "s", " ", "D", "e", "m", "o", "c", "r", "a", "t", "i", "c", " ", "R", "e", "p", "u", "b", "l", "i", "c">>>>,
       <<<<"s", "y", "r", "i", "a">>, <<"S", "y", "r", "i", "a", "n", " ", "A", "r", "a", "b", " ", "R", "e", "p", "u", "b", "l", "i", "c">>>> >>

\* a dict in insertion order: a sequence of <<key, value>>, keys distinct
DictHas(d, k) == \E i \in DOMAIN d : d[i][1] = k

DictGet(d, k) == d[CHOOSE i \in DOMAIN d : d[i][1] = k][2]

DictKeys(d) == [i \in DOMAIN d |-> d[i][1]]

\* a dict whose first registration of a key stays
DictSetDefault(d, k, v) == IF DictHas(d, k) THEN d ELSE Append(d, <<k, v>>)

\* d[k] = v: a new key goes last, an old key keeps its place and takes v
DictSet(d, k, v) ==
    IF DictHas(d, k)
    THEN [i \in DOMAIN d |-> IF d[i][1] = k THEN <<k, v>> ELSE d[i]]
    ELSE Append(d, <<k, v>>)

\* the attribute is there (hasattr): an absent attribute is <<>>
HasAttr(a) == a # <<>>

\* the body of "for c in pycountry.countries"
RegisterNames(d, c) ==
    LET d1 == DictSet(d, Lower(c.name), c.name)
        d2 == IF HasAttr(c.official_name)
              THEN DictSet(d1, Lower(c.official_name), c.name) ELSE d1
    IN IF HasAttr(c.common_name)
       THEN DictSet(d2, Lower(c.common_name), c.name) ELSE d2

\* sorted(keys, key=len, reverse=True): longest first, keys of one length
\* in the order they had (the sort is stable)
SortedByLenDesc(ks) ==
    LET Before(i, j) == Len(ks[i]) > Len(ks[j]) \/ (Len(ks[i]) = Len(ks[j]) /\ i < j)
        Rank(j) == Cardinality({i \in DOMAIN ks : Before(i, j)}) + 1
    IN [r \in DOMAIN ks |-> ks[CHOOSE j \in DOMAIN ks : Rank(j) = r]]

MaxCountries == 2

\* entries a country registry may hold: name, official_name, common_name
RegistryPool ==
    { [name |-> <<"R", "u", "s", "s", "i", "a">>, official_name |-> <<"R", "u", "s", "s", "i", "a", "n", " ", "F", "e", "d", "e", "r", "a", "t", "i", "o", "n">>, common_name |-> <<>>],
      [name |-> <<"V", "i", "e", "t", " ", "N", "a", "m">>, official_name |-> <<"S", "o", "c", "i", "a", "l", "i", "s", "t", " ", "R", "e", "p", "u", "b", "l", "i", "c", " ", "o", "f", " ", "V", "i", "e", "t", " ", "N", "a", "m">>, common_name |-> <<"V", "i", "e", "t", "n", "a", "m">>],
      [name |-> <<"I", "r", "a", "n">>, official_name |-> <<>>, common_name |-> <<"I", "r", "a", "n">>],
      [name |-> <<"C", "h", "a", "d">>, official_name |-> <<"R", "e", "p", "u", "b", "l", "i", "c", " ", "o", "f", " ", "C", "h", "a", "d">>, common_name |-> <<>>],
      [name |-> <<"K", "o", "r", "e", "a", ",", " ", "R", "e", "p", "u", "b", "l", "i", "c", " ", "o", "f">>, official_name |-> <<>>, common_name |-> <<"S", "o", "u", "t", "h", " ", "K", "o", "r", "e", "a">>] }

Registries ==
    UNION {{r \in [1..n -> RegistryPool] : \A i, j \in 1..n : i # j => r[i] # r[j]} :
              n \in 0..MaxCountries}

InitLexicon ==
    /\ registry \in Registries
    /\ name_map = <<>>
    /\ keys_sorted = <<>>
    /\ ci = 0
    /\ pcL = "countries"
    /\ IdleAllBut("L")

\* one iteration of "for c in pycountry.countries"
RegisterCountry ==
    /\ pcL = "countries"
    /\ ci < Len(registry)
    /\ name_map' = RegisterNames(name_map, registry[ci + 1])
    /\ ci' = ci + 1
    /\ UNCHANGED <<registry, keys_sorted, pcL>>
    /\ UNCHANGED othersL

\* the registry is exhausted: on to the alias table
CountriesDone ==
    /\ pcL = "countries"
    /\ ci = Len(registry)
    /\ ci' = 0
    /\ pcL' = "aliases"
    /\ UNCHANGED <<registry, name_map, keys_sorted>>
    /\ UNCHANGED othersL

\* one iteration of "for k, v in ALIASES.items()"
OverlayAlias ==
    /\ pcL = "aliases"
    /\ ci < Len(ALIASES)
    /\ name_map' = DictSet(name_map, Lower(ALIASES[ci + 1][1]), ALIASES[ci + 1][2])
    /\ ci' = ci + 1
    /\ UNCHANGED <<registry, keys_sorted, pcL>>
    /\ UNCHANGED othersL

\* keys_sorted = sorted(name_map.keys(), key=len, reverse=True); return
SortKeys ==
    /\ pcL = "aliases"
    /\ ci = Len(ALIASES)
    /\ keys_sorted' = SortedByLenDesc(DictKeys(name_map))
    /\ pcL' = "done"
    /\ UNCHANGED <<registry, name_map, ci>>
    /\ UNCHANGED othersL

NextLexicon == RegisterCountry \/ CountriesDone \/ OverlayAlias \/ SortKeys

SpecLexicon == InitLexicon /\ [][NextLexicon]_vars

\* the registry registers some alias key with a name other than the alias
\* table's
RegistryDisagrees ==
    \E i \in DOMAIN registry, a \in DOMAIN ALIASES :
        /\ ALIASES[a][1] \in {Lower(registry[i].name), Lower(registry[i].official_name),
                              Lower(registry[i].common_name)}
        /\ registry[i].name # ALIASES[a][2]

\* C13: in the built lexicon every alias key maps to the alias table's name,
\* whatever the registry registered under that key, and the key list holds
\* every key of the mapping exactly once, in non-increasing order of length.
C13_AliasesWinKeysByLength ==
    pcL = "done" =>
        /\ \A a \in DOMAIN ALIASES :
              /\ DictHas(name_map, ALIASES[a][1])
              /\ DictGet(name_map, ALIASES[a][1]) = ALIASES[a][2]
        /\ \A i, j \in DOMAIN name_map : i # j => name_map[i][1] # name_map[j][1]
        /\ Len(keys_sorted) = Len(name_map)
        /\ \A i \in DOMAIN name_map :
              Cardinality({j \in DOMAIN keys_sorted : keys_sorted[j] = name_map[i][1]}) = 1
        /\ \A i, j \in DOMAIN keys_sorted :
              i < j => Len(keys_sorted[i]) >= Len(keys_sorted[j])

\* C13 witness: the lexicon was built from a registry that calls Russia
\* "Russia" and Iran "Iran", and both keys map to the alias table's names.
C13_Witness ==
    /\ pcL = "done"
    /\ RegistryDisagrees
    /\ Len(registry) = 2
    /\ DictHas(name_map, <<"r", "u", "s", "s", "i", "a">>) /\ DictGet(name_map, <<"r", "u", "s", "s", "i", "a">>) = <<"R", "u", "s", "s", "i", "a", "n", " ", "F", "e", "d", "e", "r", "a", "t", "i", "o", "n">>
    /\ DictGet(name_map, <<"i", "r", "a", "n">>) = <<"I", "r", "a", "n", ",", " ", "I", "s", "l", "a", "m", "i", "c", " ", "R", "e", "p", "u", "b", "l", "i", "c", " ", "o", "f">>
    /\ Len(keys_sorted) > Len(ALIASES)

---------------------------------------------------------------------------
(* infer_country, split_pre_abstract, pick_first_affiliation_line *)

\* a dict after the assignments d[k] = v of as, made in order on an empty
\* dict: a key stands where it was first assigned and holds the value it
\* was last assigned
DictOf(as) ==
    LET IsFirst(i) == \A j \in 1..(i - 1) : as[j][1] # as[i][1]
        LastOf(k) ==
            CHOOSE j \in DOMAIN as :
                as[j][1] = k /\ \A l \in (j + 1)..Len(as) : as[l][1] # k
        firsts == SelectSeq([i \in DOMAIN as |-> i], IsFirst)
    IN [n \in DOMAIN firsts |-> <<as[firsts[n]][1], as[LastOf(as[firsts[n]][1])][2]>>]

\* the assignments of the body of "for c in pycountry.countries"
NameAssignments(c) ==
    << <<Lower(c.name), c.name>> >>
    \o (IF HasAttr(c.official_name) THEN << <<Lower(c.official_name), c.name>> >> ELSE <<>>)
    \o (IF HasAttr(c.common_name) THEN << <<Lower(c.common_name), c.name>> >> ELSE <<>>)

\* the assignments of "for c in pycountry.countries"
RECURSIVE RegisterAll(_)
RegisterAll(reg) ==
    IF reg = <<>> THEN <<>> ELSE NameAssignments(Head(reg)) \o RegisterAll(Tail(reg))

\* the assignments of "for k, v in ALIASES.items(): name_map[k.lower()] = v"
OverlayAll == [i \in DOMAIN ALIASES |-> <<Lower(ALIASES[i][1]), ALIASES[i][2]>>]

\* build_country_matchers as a function of the registry
build_country_matchers(reg) ==
    LET nm == DictOf(RegisterAll(reg) \o OverlayAll)
    IN [name_map |-> nm, keys_sorted |-> SortedByLenDesc(DictKeys(nm))]

\* re.sub(r"[\(\)\[\]\{\};]", " ", t)
StructuralPunct == {"(", ")", "[", "]", "{", "}", ";"}

ReplacePunct(t) == [i \in DOMAIN t |-> IF t[i] \in StructuralPunct THEN " " ELSE t[i]]

\* the padded, lower-cased, cleaned text infer_country searches
InferPrep(text) ==
    CollapseFrom(ReplacePunct(<<" ">> \o Strip(Lower(text)) \o <<" ">>), 1)

\* a test without the delimiting spaces
KeyOccursUndelimited(k, t) == IsSubstring(k, t)

\* f" {k} " in t
KeyOccurs(k, t) == IsSubstring(<<" ">> \o k \o <<" ">>, t)

\* for k in keys_sorted: if f" {k} " in t: return name_map[k]
FirstKeyHit(t, nm, ks) ==
    LET hits == {i \in DOMAIN ks : KeyOccurs(ks[i], t)}
    IN IF hits = {} THEN <<>>
       ELSE DictGet(nm, ks[CHOOSE i \in hits : \A j \in hits : i <= j])

infer_country(text, nm, ks) ==
    IF text = <<>> THEN <<>> ELSE FirstKeyHit(InferPrep(text), nm, ks)

\* str.splitlines() for texts whose only line break is "\n": the pieces
\* between line breaks, without an empty piece after the last line break
RECURSIVE SplitFrom(_, _)
SplitFrom(t, p) ==
    IF p > Len(t) THEN <<>>
    ELSE LET q == RunEndNot(t, p, {"\n"})
         IN <<SubSeq(t, p, q - 1)>> \o SplitFrom(t, q + 1)

SplitLines(t) == SplitFrom(t, 1)

AbstractWord == <<"a", "b", "s", "t", "r", "a", "c", "t">>

\* a line the heading test never takes for the heading
AbstractMatchNever(ln) == FALSE

\* ABSTRACT_RE.match(ln): (?im)^\s*abstract\s*$ at the start of ln; $ is
\* the end of ln or, the pattern being multi-line, a line break
AbstractMatch(ln) ==
    LET p1 == RunEnd(ln, 1, SpaceSet)
        p2 == p1 + Len(AbstractWord)
    IN /\ p2 - 1 <= Len(ln)
       /\ Lower(SubSeq(ln, p1, p2 - 1)) = AbstractWord
       /\ LET p3 == RunEnd(ln, p2, SpaceSet)
          IN p3 > Len(ln) \/ \E q \in p2..(p3 - 1) : ln[q] = "\n"

\* the lines before the first line that is the heading
RECURSIVE BeforeHeading(_)
BeforeHeading(lines) ==
    IF lines = <<>> THEN <<>>
    ELSE IF AbstractMatch(Strip(Head(lines))) THEN <<>>
    ELSE <<Head(lines)>> \o BeforeHeading(Tail(lines))

split_pre_abstract(text) ==
    IF text = <<>> THEN <<>> ELSE JoinLines(BeforeHeading(SplitLines(text)))

\* [ln.strip() for ln in lines if ln.strip()]
RECURSIVE StrippedNonBlank(_)
StrippedNonBlank(lines) ==
    IF lines = <<>> THEN <<>>
    ELSE IF Strip(Head(lines)) = <<>> THEN StrippedNonBlank(Tail(lines))
    ELSE <<Strip(Head(lines))>> \o StrippedNonBlank(Tail(lines))

NoText == <<"none">>

LeadPunct == {")", ".", ":"}

\* AFFIL_LEAD_RE.match(ln).group(2) for a line without line breaks:
\* ^\s*(\d+|[a-z])[\)\.\:]?\s+(.*\S)\s*$, letters of either case;
\* NoText when the line does not match
AffilLeadBody(ln) ==
    LET p0 == RunEnd(ln, 1, SpaceSet)
    IN IF p0 > Len(ln) \/ ln[p0] \notin (DigitSet \cup LetterSet) THEN NoText
       ELSE LET p1 == IF ln[p0] \in DigitSet THEN RunEnd(ln, p0, DigitSet) ELSE p0 + 1
                p2 == IF p1 <= Len(ln) /\ ln[p1] \in LeadPunct THEN p1 + 1 ELSE p1
                p3 == RunEnd(ln, p2, SpaceSet)
                e == TrailStart(ln, Len(ln)) - 1
            IN IF p3 = p2 \/ p3 > e THEN NoText ELSE SubSeq(ln, p3, e)

AffilMarkers ==
    {<<"d", "e", "p", "a", "r", "t", "m", "e", "n", "t">>, <<"u", "n", "i", "v", "e", "r", "s", "i", "t", "y">>, <<"i", "n", "s", "t", "i", "t", "u", "t", "e">>, <<"h", "o", "s", "p", "i", "t", "a", "l">>, <<"c", "e", "n", "t", "r", "e">>, <<"c", "e", "n", "t", "e", "r">>,
     <<"l", "a", "b", "o", "r", "a", "t", "o", "r", "y">>, <<"l", "a", "b">>}

\* re.search(r"(?i)\b(department|...|lab)\b", ln)
MarkerSearch(ln) ==
    \E w \in AffilMarkers, p \in DOMAIN ln :
        /\ p + Len(w) - 1 <= Len(ln)
        /\ Lower(SubSeq(ln, p, p + Len(w) - 1)) = w
        /\ WordBoundary(ln, p)
        /\ WordBoundary(ln, p + Len(w))

\* a search that starts with the last pass
LastPass == 3

\* the pass the search starts with
FirstPass == 1

\* the text pass p hands to infer_country for the line ln, NoText when the
\* pass skips the line
PassText(p, ln) ==
    CASE p = 1 -> AffilLeadBody(ln)
      [] p = 2 -> IF MarkerSearch(ln) THEN ln ELSE NoText
      [] OTHER -> ln

\* a first pass that returns the whole line
ReturnedWholeLine(p, ln) == ln

\* the first component of the pair pass p returns for the line ln
ReturnedLine(p, ln) == IF p = 1 THEN AffilLeadBody(ln) ELSE ln

NoResult == << <<>>, <<>> >>

MaxAffilLines == 3

\* the registry the lexicon of the affiliation runs is built from
AffilRegistry ==
    << [name |-> <<"C", "h", "i", "n", "a">>, official_name |-> <<"P", "e", "o", "p", "l", "e", "'", "s", " ", "R", "e", "p", "u", "b", "l", "i", "c", " ", "o", "f", " ", "C", "h", "i", "n", "a">>, common_name |-> <<>>],
       [name |-> <<"F", "r", "a", "n", "c", "e">>, official_name |-> <<"F", "r", "e", "n", "c", "h", " ", "R", "e", "p", "u", "b", "l", "i", "c">>, common_name |-> <<>>],
       [name |-> <<"G", "u", "i", "n", "e", "a">>, official_name |-> <<"R", "e", "p", "u", "b", "l", "i", "c", " ", "o", "f", " ", "G", "u", "i", "n", "e", "a">>, common_name |-> <<>>],
       [name |-> <<"P", "a", "p", "u", "a", " ", "N", "e", "w", " ", "G", "u", "i", "n", "e", "a">>, official_name |-> <<"I", "n", "d", "e", "p", "e", "n", "d", "e", "n", "t", " ", "S", "t", "a", "t", "e", " ", "o", "f", " ", "P", "a", "p", "u", "a", " ", "N", "e", "w", " ", "G", "u", "i", "n", "e", "a">>, common_name |-> <<>>],
       [name |-> <<"K", "o", "r", "e", "a">>, official_name |-> <<>>, common_name |-> <<>>] >>

Lexicon == build_country_matchers(AffilRegistry)

\* lines of the first pages of a PDF
AffilLinePool ==
    { <<>>,
      <<" ", "A", "B", "S", "T", "R", "A", "C", "T", "\t">>,
      <<"S", "e", "o", "u", "l", ",", " ", "S", "o", "u", "t", "h", " ", " ", "K", "o", "r", "e", "a">>,
      <<"V", "i", "s", "i", "t", " ", "C", "h", "i", "n", "a", "t", "o", "w", "n">>,
      <<"1", " ", "L", "a", "b", " ", "o", "f", " ", "M", "R", ",", " ", "C", "h", "i", "n", "a", "t", "o", "w", "n">>,
      <<"2", ")", " ", "U", "n", "i", "v", "e", "r", "s", "i", "t", "y", " ", "o", "f", " ", "L", "y", "o", "n", ";", " ", "F", "r", "a", "n", "c", "e">>,
      <<"a", ".", " ", "L", "a", "b", ",", " ", "U", ".", "K", ".">>,
      <<"U", "n", "i", "v", "e", "r", "s", "i", "t", "y", " ", "H", "o", "s", "p", "i", "t", "a", "l", " ", "(", "C", "h", "i", "n", "a", ")">>,
      <<"A", "b", "s", "t", "r", "a", "c", "t", " ", "o", "f", " ", "P", "a", "p", "u", "a", " ", "N", "e", "w", " ", "G", "u", "i", "n", "e", "a">>,
      <<"F", "u", "n", "d", "e", "d", " ", "b", "y", " ", "K", "o", "r", "e", "a", ".">> }

AffilTexts ==
    {JoinLines(ls) : ls \in UNION {[1..n -> AffilLinePool] : n \in 0..MaxAffilLines}}

InitAffil ==
    /\ aText \in AffilTexts
    /\ pre_abs = <<>>
    /\ aLines = <<>>
    /\ aPass = 0
    /\ aLine = 0
    /\ inferred = <<>>
    /\ aResult = <<>>
    /\ pcA = "split"
    /\ IdleAllBut("A")

\* pre_abs = split_pre_abstract(text)
SplitPreAbstract ==
    /\ pcA = "split"
    /\ pre_abs' = split_pre_abstract(aText)
    /\ pcA' = "pick"
    /\ UNCHANGED <<aText, aLines, aPass, aLine, inferred, aResult>>
    /\ UNCHANGED othersA

\* pick_first_affiliation_line: if not pre_abstract_text: return "", ""
PickEmpty ==
    /\ pcA = "pick"
    /\ pre_abs = <<>>
    /\ aResult' = NoResult
    /\ pcA' = "done"
    /\ UNCHANGED <<aText, pre_abs, aLines, aPass, aLine, inferred>>
    /\ UNCHANGED othersA

\* lines = [ln.strip() for ln in pre_abstract_text.splitlines() if ln.strip()]
PickLines ==
    /\ pcA = "pick"
    /\ pre_abs # <<>>
    /\ aLines' = StrippedNonBlank(SplitLines(pre_abs))
    /\ aPass' = FirstPass
    /\ aLine' = 1
    /\ pcA' = "pass"
    /\ UNCHANGED <<aText, pre_abs, inferred, aResult>>
    /\ UNCHANGED othersA

\* one iteration of "for ln in lines" of pass p: skip the line, or infer the
\* country and return on a hit
PassLine(p) ==
    /\ pcA = "pass"
    /\ aPass = p
    /\ aLine <= Len(aLines)
    /\ LET ln == aLines[aLine]
           txt == PassText(p, ln)
           country == infer_country(txt, Lexicon.name_map, Lexicon.keys_sorted)
       IN IF txt = NoText
          THEN /\ aLine' = aLine + 1
               /\ UNCHANGED <<inferred, aResult, pcA>>
          ELSE /\ inferred' = Append(inferred, [text |-> txt, result |-> country])
               /\ IF country # <<>>
                  THEN /\ aResult' = <<ReturnedLine(p, ln), country>>
                       /\ pcA' = "done"
                       /\ UNCHANGED aLine
                  ELSE /\ aLine' = aLine + 1
                       /\ UNCHANGED <<aResult, pcA>>
    /\ UNCHANGED <<aText, pre_abs, aLines, aPass>>
    /\ UNCHANGED othersA

\* first pass: numbered or lettered lines
Pass1Line == aPass = 1 /\ PassLine(1)

\* second pass: lines with an affiliation marker word
Pass2Line == aPass = 2 /\ PassLine(2)

\* third pass: any line
Pass3Line == aPass = 3 /\ PassLine(3)

\* a pass ran out of lines: the next pass starts at the first line
PassExhausted ==
    /\ pcA = "pass"
    /\ aLine > Len(aLines)
    /\ aPass < 3
    /\ aPass' = aPass + 1
    /\ aLine' = 1
    /\ UNCHANGED <<aText, pre_abs, aLines, inferred, aResult, pcA>>
    /\ UNCHANGED othersA

\* the third pass ran out of lines: return "", ""
PickNothing ==
    /\ pcA = "pass"
    /\ aLine > Len(aLines)
    /\ aPass = 3
    /\ aResult' = NoResult
    /\ pcA' = "done"
    /\ UNCHANGED <<aText, pre_abs, aLines, aPass, aLine, inferred>>
    /\ UNCHANGED othersA

NextAffil ==
    \/ SplitPreAbstract \/ PickEmpty \/ PickLines
    \/ Pass1Line \/ Pass2Line \/ Pass3Line
    \/ PassExhausted \/ PickNothing

SpecAffil == InitAffil /\ [][NextAffil]_vars

---------------------------------------------------------------------------
(* Claims about the country of the first affiliation *)

\* the key k stands between two spaces somewhere in t
SpaceDelimited(k, t) ==
    \E i \in 1..(Len(t) - Len(k) - 1) :
        /\ t[i] = " "
        /\ SubSeq(t, i + 1, i + Len(k)) = k
        /\ t[i + Len(k) + 1] = " "

\* the lexicon keys that occur space-delimited in the prepared text
OccurringKeys(text) ==
    {k \in Range(Lexicon.keys_sorted) : SpaceDelimited(k, InferPrep(text))}

InferOf(text) == infer_country(text, Lexicon.name_map, Lexicon.keys_sorted)

\* C14: every call of infer_country returns the name mapped by a longest
\* lexicon key that occurs space-delimited in the prepared text (lower-cased,
\* padded, ()[]{}; replaced by spaces, white space collapsed), and nothing
\* when no key occurs so or the text is empty; "south korea" is not resolved
\* through "korea", "chinatown" does not match "china".
C14_LongestDelimitedKey ==
    /\ \A c \in DOMAIN inferred :
          LET occ == OccurringKeys(inferred[c].text)
          IN /\ IF occ = {} THEN inferred[c].result = <<>>
                ELSE \E k \in occ :
                        /\ \A k2 \in occ : Len(k2) <= Len(k)
                        /\ inferred[c].result = DictGet(Lexicon.name_map, k)
             /\ inferred[c].text = <<"S", "e", "o", "u", "l", ",", " ", "S", "o", "u", "t", "h", " ", " ", "K", "o", "r", "e", "a">> =>
                   inferred[c].result = <<"K", "o", "r", "e", "a", ",", " ", "R", "e", "p", "u", "b", "l", "i", "c", " ", "o", "f">>
             /\ inferred[c].text = <<"V", "i", "s", "i", "t", " ", "C", "h", "i", "n", "a", "t", "o", "w", "n">> => inferred[c].result = <<>>
    /\ InferOf(<<>>) = <<>>

\* C14 witness: infer_country was called on a line in which both "korea"
\* and "south korea" occur, and on a line with "chinatown".
C14_Witness ==
    /\ pcA = "done"
    /\ \E c, d \in DOMAIN inferred :
          /\ inferred[c].text = <<"V", "i", "s", "i", "t", " ", "C", "h", "i", "n", "a", "t", "o", "w", "n">>
          /\ inferred[c].result = <<>>
          /\ {<<"k", "o", "r", "e", "a">>, <<"s", "o", "u", "t", "h", " ", "k", "o", "r", "e", "a">>} \subseteq OccurringKeys(inferred[d].text)
          /\ inferred[d].result = <<"K", "o", "r", "e", "a", ",", " ", "R", "e", "p", "u", "b", "l", "i", "c", " ", "o", "f">>

\* the lines from whose pass-p text a country is inferred
PassHits(p) ==
    {i \in DOMAIN aLines : PassText(p, aLines[i]) # NoText /\ InferOf(PassText(p, aLines[i])) # <<>>}

MinOf(S) == CHOOSE i \in S : \A j \in S : i <= j

\* the pass that gives the result and the line it comes from: <<0, 0>> when
\* no pass has a line that yields a country
ExpectedPick ==
    IF PassHits(1) # {} THEN <<1, MinOf(PassHits(1))>>
    ELSE IF PassHits(2) # {} THEN <<2, MinOf(PassHits(2))>>
    ELSE IF PassHits(3) # {} THEN <<3, MinOf(PassHits(3))>>
    ELSE <<0, 0>>

\* C15: the result comes from the first enumerated line whose body yields a
\* country if there is one, whatever lines stand before it; else from the
\* first line with a marker word that yields a country; else from the first
\* line that yields a country.
C15_PassesBeforePosition ==
    pcA = "done" =>
        LET e == ExpectedPick
        IN IF e[1] = 0 THEN aResult = NoResult
           ELSE /\ aPass = e[1]
                /\ aLine = e[2]
                /\ aResult[2] = InferOf(PassText(e[1], aLines[e[2]]))

\* C15 witness: the result came from an enumerated line although an earlier
\* line that is not enumerated holds a country.
C15_Witness ==
    /\ pcA = "done"
    /\ aPass = 1
    /\ aResult # NoResult
    /\ \E j \in 1..(aLine - 1) : j \in PassHits(3) /\ j \notin PassHits(1)

IsBodyOf(x, ln) ==
    /\ x # <<>> /\ Len(x) < Len(ln) - 1
    /\ SubSeq(ln, Len(ln) - Len(x) + 1, Len(ln)) = x
    /\ x[1] \notin SpaceSet
    /\ \E e \in 1..(Len(ln) - Len(x) - 1) :
          /\ \A i \in 1..e : ln[i] \notin SpaceSet
          /\ \A i \in (e + 1)..(Len(ln) - Len(x)) : ln[i] \in SpaceSet

RECURSIVE HeadingPos(_, _)
HeadingPos(lines, i) ==
    IF i > Len(lines) THEN i
    ELSE IF Lower(Strip(lines[i])) = AbstractWord THEN i
    ELSE HeadingPos(lines, i + 1)

LinesBeforeHeading ==
    SubSeq(SplitLines(aText), 1, HeadingPos(SplitLines(aText), 1) - 1)

\* C17: split_pre_abstract returns the lines before the first heading line,
\* all lines when there is none; the lines the passes go over, every text
\* handed to infer_country and the line returned come from those lines.
C17_OnlyBeforeAbstract ==
    LET before == LinesBeforeHeading
        trimmed == StrippedNonBlank(before)
    IN /\ pcA # "split" => pre_abs = JoinLines(before)
       /\ pcA \in {"pass", "done"} =>
             /\ aLines = trimmed
             /\ \A c \in DOMAIN inferred :
                   \E i \in DOMAIN trimmed :
                       \/ inferred[c].text = trimmed[i]
                       \/ IsBodyOf(inferred[c].text, trimmed[i])
             /\ (pcA = "done" /\ aResult # NoResult) =>
                   \E i \in DOMAIN trimmed :
                       \/ aResult[1] = trimmed[i]
                       \/ IsBodyOf(aResult[1], trimmed[i])

\* C17 witness: a heading line is followed by a line that holds a country,
\* the lines before it hold none, and nothing was found.
C17_Witness ==
    /\ pcA = "done"
    /\ aResult = NoResult
    /\ aLines # <<>>
    /\ LET ls == SplitLines(aText)
       IN \E i \in DOMAIN ls : i > HeadingPos(ls, 1) /\ InferOf(ls[i]) # <<>>

---------------------------------------------------------------------------
(* index_pdfs_by_doi *)

\* the characters of the path names, in code point order
CodeOrder ==
    <<" ", "-", ".">> \o DigitChars \o UpperLetters \o <<"_">> \o LowerLetters

CodeOf(c) == CHOOSE i \in DOMAIN CodeOrder : CodeOrder[i] = c

\* str < str: the first differing character decides, a proper prefix is less
RECURSIVE StrLess(_, _)
StrLess(a, b) ==
    IF b = <<>> THEN FALSE
    ELSE IF a = <<>> THEN TRUE
    ELSE IF Head(a) = Head(b) THEN StrLess(Tail(a), Tail(b))
    ELSE CodeOf(Head(a)) < CodeOf(Head(b))

\* Path < Path: the parts are compared one by one, as lists of strings
RECURSIVE PathLess(_, _)
PathLess(p, q) ==
    IF q = <<>> THEN FALSE
    ELSE IF p = <<>> THEN TRUE
    ELSE IF Head(p) = Head(q) THEN PathLess(Tail(p), Tail(q))
    ELSE StrLess(Head(p), Head(q))

\* f put before the first file whose path is greater
RECURSIVE InsertByPath(_, _)
InsertByPath(fs, f) ==
    IF fs = <<>> THEN <<f>>
    ELSE IF PathLess(f.path, Head(fs).path) THEN <<f>> \o fs
    ELSE <<Head(fs)>> \o InsertByPath(Tail(fs), f)

\* sorted(pdfs)
RECURSIVE SortedByPath(_)
SortedByPath(fs) ==
    IF fs = <<>> THEN <<>>
    ELSE InsertByPath(SortedByPath(Tail(fs)), Head(fs))

\* extract_first_pages_text: the text pdfminer gives, "" when it raises
extract_first_pages_text(f) == IF f.text = Raise THEN <<>> ELSE f.text

\* an index in which a later document replaces an earlier one
IndexStoreOverwrite(d, doi, path) ==
    IF doi # <<>> THEN DictSet(d, doi, path) ELSE d

\* if doi and doi not in doi_to_pdf: doi_to_pdf[doi] = pdf
IndexStore(d, doi, path) ==
    IF doi # <<>> /\ ~DictHas(d, doi) THEN Append(d, <<doi, path>>) ELSE d

MaxIndexPdfs == 3

PathPool ==
    { <<<<"F", "e", "b">>, <<"a", ".", "p", "d", "f">>>>, <<<<"J", "a", "n">>, <<"b", ".", "p", "d", "f">>>>, <<<<"J", "a", "n">>, <<"a", ".", "p", "d", "f">>>>,
      <<<<"J", "a", "n", "-", "2">>, <<"a", ".", "p", "d", "f">>>> }

\* what the first pages of a PDF give
FirstPagesPool ==
    { Raise, <<"n", "o", " ", "i", "d", "e", "n", "t", "i", "f", "i", "e", "r">>, <<"d", "o", "i", " ", "1", "0", ".", "1", "0", "0", "2", "/", "m", "r", "m", ".", "1">>, <<"D", "O", "I", ":", "1", "0", ".", "1", "0", "0", "2", "/", "M", "R", "M", ".", "1", ".">>,
      <<"1", "0", ".", "1", "0", "0", "2", "/", "m", "r", "m", ".", "2", " ", "c", "i", "t", "e", "s", " ", "1", "0", ".", "1", "0", "0", "2", "/", "m", "r", "m", ".", "1">> }

\* the PDF files under the year folder, in the order the folder walk gives
FolderWalks ==
    UNION {{w \in [1..n -> [path : PathPool, text : FirstPagesPool]] :
               \A i, j \in 1..n : i # j => w[i].path # w[j].path} :
              n \in 0..MaxIndexPdfs}

InitIndex ==
    /\ pdfs \in FolderWalks
    /\ doi_to_pdf = <<>>
    /\ xi = 0
    /\ pcX = "sort"
    /\ IdleAllBut("X")

\* pdfs = sorted([p for p in year_folder.rglob("*.pdf") if p.is_file()])
SortPdfs ==
    /\ pcX = "sort"
    /\ pdfs' = SortedByPath(pdfs)
    /\ pcX' = "loop"
    /\ UNCHANGED <<doi_to_pdf, xi>>
    /\ UNCHANGED othersX

\* one iteration of "for pdf in pdfs"
IndexPdf ==
    /\ pcX = "loop"
    /\ xi < Len(pdfs)
    /\ LET pdf == pdfs[xi + 1]
           doi == affil_parse_doi(extract_first_pages_text(pdf))
       IN doi_to_pdf' = IndexStore(doi_to_pdf, doi, pdf.path)
    /\ xi' = xi + 1
    /\ UNCHANGED <<pdfs, pcX>>
    /\ UNCHANGED othersX

\* return doi_to_pdf
IndexReturn ==
    /\ pcX = "loop"
    /\ xi = Len(pdfs)
    /\ pcX' = "done"
    /\ UNCHANGED <<pdfs, doi_to_pdf, xi>>
    /\ UNCHANGED othersX

NextIndex == SortPdfs \/ IndexPdf \/ IndexReturn

SpecIndex == InitIndex /\ [][NextIndex]_vars

\* the identifier extracted from the document f
IdentifierOf(f) == affil_parse_doi(extract_first_pages_text(f))

\* the documents seen so far, in any order
SeenDocs == {pdfs[i] : i \in 1..xi}

\* the index holds exactly the identifiers of the documents seen so far,
\* each once, each with the least path among the documents that carry it
IndexIsFirstWins ==
    pcX \in {"loop", "done"} =>
        /\ Range(DictKeys(doi_to_pdf)) = {IdentifierOf(f) : f \in SeenDocs} \ {<<>>}
        /\ \A i, j \in DOMAIN doi_to_pdf : i # j => doi_to_pdf[i][1] # doi_to_pdf[j][1]
        /\ \A e \in DOMAIN doi_to_pdf :
              \E f \in SeenDocs :
                  /\ f.path = doi_to_pdf[e][2]
                  /\ IdentifierOf(f) = doi_to_pdf[e][1]
                  /\ \A g \in SeenDocs :
                        IdentifierOf(g) = doi_to_pdf[e][1] =>
                            (g = f \/ PathLess(f.path, g.path))
        /\ pcX = "done" => xi = Len(pdfs)

\* an entry of the index stays as it is
EntriesKept ==
    \A e \in DOMAIN doi_to_pdf :
        e \in DOMAIN doi_to_pdf' /\ doi_to_pdf'[e] = doi_to_pdf[e]

\* C18: every key of the index maps to the first document, in sorted path
\* order, whose identifier is that key; no entry is ever overwritten; a
\* document without identifier is under no key.
C18_FirstDocumentWins == []IndexIsFirstWins /\ [][EntriesKept]_vars

\* C18 witness: three documents indexed, one without identifier and two
\* with the same identifier, Jan/b.pdf and Jan-2/a.pdf, of which the first
\* in part-wise path order is indexed.
C18_Witness ==
    /\ pcX = "done"
    /\ Len(pdfs) = 3
    /\ Len(doi_to_pdf) = 1
    /\ \E i, j, k \in DOMAIN pdfs :
          /\ i < j
          /\ IdentifierOf(pdfs[i]) = IdentifierOf(pdfs[j])
          /\ IdentifierOf(pdfs[i]) # <<>>
          /\ pdfs[i].text # pdfs[j].text
          /\ pdfs[i].path = <<<<"J", "a", "n">>, <<"b", ".", "p", "d", "f">>>>
          /\ pdfs[j].path = <<<<"J", "a", "n", "-", "2">>, <<"a", ".", "p", "d", "f">>>>
          /\ IdentifierOf(pdfs[k]) = <<>>
          /\ doi_to_pdf[1][2] = pdfs[i].path

---------------------------------------------------------------------------
(* infer_gender *)

\* the text up to the first " " (str.split(" ")[0])
RECURSIVE UpToSpace(_, _)
UpToSpace(t, p) ==
    IF p > Len(t) \/ t[p] = " " THEN SubSeq(t, 1, p - 1) ELSE UpToSpace(t, p + 1)

\* fn = (firstname or "").strip().split(" ")[0]
FirstToken(name) == UpToSpace(Strip(name), 1)

Decided == {"male", "female"}

\* a table whose every entry decides
TableDecidesAnyValue(pm, key) == DictHas(pm, key)

\* key in popular_map and popular_map[key] in ("male", "female")
TableDecides(pm, key) == DictHas(pm, key) /\ DictGet(pm, key) \in Decided

\* what det.get_gender(fn) may do: give one of the detector's answers, or
\* raise
DetectorAnswers ==
    {"male", "female", "mostly_male", "mostly_female", "andy", "unknown", "raise"}

\* the mapping of the detector's answer, "" when it does not decide
DetectorGender(gg) ==
    CASE gg \in Decided -> gg
      [] gg = "mostly_male" -> "male"
      [] gg = "mostly_female" -> "female"
      [] OTHER -> ""

\* what Genderize().get([fn]) may do: give a gender, give none, give an
\* empty list, or raise
OracleResponses == {"male", "female", "none", "empty", "raise"}

\* an oracle that is asked whatever the switches say
OracleAlways == TRUE

\* use_genderize and HAVE_GENDERIZE
OracleEnabled == use_genderize /\ HAVE_GENDERIZE

FirstNamePool ==
    { <<>>, <<" ", " ">>, <<"M", "a", "r", "y">>, <<" ", "M", "A", "R", "Y", " ", "A", "n", "n">>, <<"P", "a", "t">>, <<"A", "n", "n", "\t", "L", "e", "e">> }

\* tables load_popular_names_csv can give: lower-cased names with "male",
\* "female" or "unknown"
PopularMapPool ==
    { <<>>,
      << <<<<"m", "a", "r", "y">>, "female">> >>,
      << <<<<"m", "a", "r", "y">>, "unknown">>, <<<<"p", "a", "t">>, "male">> >>,
      << <<<<"m", "a", "r", "y", " ", "a", "n", "n">>, "male">>, <<<<"a", "n", "n", "\t", "l", "e", "e">>, "female">> >> }

InitGender ==
    /\ firstname \in FirstNamePool
    /\ popular_map \in PopularMapPool
    /\ use_genderize \in BOOLEAN
    /\ HAVE_GENDERIZE \in BOOLEAN
    /\ consulted = <<>>
    /\ gResult = <<>>
    /\ pcG = "entry"
    /\ IdleAllBut("G")

\* fn = ...; if not fn: return "unknown"
GenderEntry ==
    /\ pcG = "entry"
    /\ IF FirstToken(firstname) = <<>>
       THEN gResult' = <<"unknown">> /\ pcG' = "done"
       ELSE gResult' = gResult /\ pcG' = "table"
    /\ UNCHANGED <<firstname, popular_map, use_genderize, HAVE_GENDERIZE, consulted>>
    /\ UNCHANGED othersG

\* if key in popular_map and popular_map[key] in ("male", "female"): return
TableLookup ==
    /\ pcG = "table"
    /\ LET key == Lower(FirstToken(firstname))
       IN /\ consulted' = Append(consulted,
                 <<"table", IF DictHas(popular_map, key) THEN DictGet(popular_map, key) ELSE "absent">>)
          /\ IF TableDecides(popular_map, key)
             THEN gResult' = <<DictGet(popular_map, key)>> /\ pcG' = "done"
             ELSE gResult' = gResult /\ pcG' = "detector"
    /\ UNCHANGED <<firstname, popular_map, use_genderize, HAVE_GENDERIZE>>
    /\ UNCHANGED othersG

\* gg = det.get_gender(fn), which no try encloses, and the four returns
\* that follow
DetectorCall ==
    /\ pcG = "detector"
    /\ \E gg \in DetectorAnswers :
          /\ consulted' = Append(consulted, <<"detector", gg>>)
          /\ IF gg = "raise"
             THEN gResult' = Raise /\ pcG' = "done"
             ELSE IF DetectorGender(gg) # ""
             THEN gResult' = <<DetectorGender(gg)>> /\ pcG' = "done"
             ELSE /\ gResult' = gResult
                  /\ pcG' = IF OracleEnabled THEN "oracle" ELSE "fallback"
    /\ UNCHANGED <<firstname, popular_map, use_genderize, HAVE_GENDERIZE>>
    /\ UNCHANGED othersG

\* resp = Genderize().get([fn]) inside try/except
OracleCall ==
    /\ pcG = "oracle"
    /\ \E resp \in OracleResponses :
          /\ consulted' = Append(consulted, <<"oracle", resp>>)
          /\ IF resp \in Decided
             THEN gResult' = <<resp>> /\ pcG' = "done"
             ELSE gResult' = gResult /\ pcG' = "fallback"
    /\ UNCHANGED <<firstname, popular_map, use_genderize, HAVE_GENDERIZE>>
    /\ UNCHANGED othersG

\* return "unknown"
ReturnUnknown ==
    /\ pcG = "fallback"
    /\ gResult' = <<"unknown">>
    /\ pcG' = "done"
    /\ UNCHANGED <<firstname, popular_map, use_genderize, HAVE_GENDERIZE, consulted>>
    /\ UNCHANGED othersG

NextGender == GenderEntry \/ TableLookup \/ DetectorCall \/ OracleCall \/ ReturnUnknown

SpecGender == InitGender /\ [][NextGender]_vars

\* the tiers consulted, in order
TiersConsulted == [i \in DOMAIN consulted |-> consulted[i][1]]

\* C19 (as claimed): when the lower-cased first name is a key of the table,
\* the result is the table's value and only the table was consulted.
C19_TableValueReturned ==
    (pcG = "done" /\ DictHas(popular_map, Lower(Strip(firstname)))) =>
        /\ gResult = <<DictGet(popular_map, Lower(Strip(firstname)))>>
        /\ TiersConsulted = <<"table">>

\* C19 (amended): the key looked up is the lower-cased first word of the
\* trimmed first name; when the table holds "male" or "female" for it, that
\* value is returned and only the table was consulted; when the table holds
\* another value, or nothing, for it, the detector is consulted next.
C19_TableDecidesByFirstWord ==
    (pcG = "done" /\ FirstToken(firstname) # <<>>) =>
        LET key == Lower(FirstToken(firstname))
        IN IF DictHas(popular_map, key) /\ DictGet(popular_map, key) \in {"male", "female"}
           THEN /\ gResult = <<DictGet(popular_map, key)>>
                /\ TiersConsulted = <<"table">>
           ELSE /\ Len(consulted) >= 2
                /\ consulted[1][1] = "table"
                /\ consulted[2][1] = "detector"

\* C19 witness: the table holds "unknown" for "mary", and infer_gender of
\* "Mary" returned what the detector said.
C19_Witness ==
    /\ pcG = "done"
    /\ firstname = <<"M", "a", "r", "y">>
    /\ consulted = << <<"table", "unknown">>, <<"detector", "mostly_female">> >>
    /\ gResult = <<"female">>

\* C20: the oracle is consulted only when it is switched on and available
\* and after the table and the detector did not decide; a blank first name
\* gives "unknown" and nothing is consulted.
C20_OracleLastAndBlankShortCircuits ==
    /\ \A i \in DOMAIN consulted :
          consulted[i][1] = "oracle" =>
              /\ use_genderize /\ HAVE_GENDERIZE
              /\ i = 3
              /\ consulted[1][1] = "table"
              /\ consulted[1][2] \notin {"male", "female"}
              /\ consulted[2][1] = "detector"
              /\ consulted[2][2] \notin {"male", "female", "mostly_male", "mostly_female", "raise"}
    /\ Strip(firstname) = <<>> =>
          /\ consulted = <<>>
          /\ pcG = "done" => gResult = <<"unknown">>

\* C20 witness: the table and the detector did not decide, the oracle was
\* asked and its answer returned.
C20_Witness ==
    /\ pcG = "done"
    /\ Len(consulted) = 3
    /\ consulted[1] = <<"table", "absent">>
    /\ consulted[2][2] = "andy"
    /\ consulted[3] = <<"oracle", "female">>
    /\ gResult = <<"female">>

\* C21: no failure of a tier leaves infer_gender as an exception: a finished
\* call gave male, female or unknown, also when the table missed, the
\* detector raised or the oracle raised.
C21_FailuresNeverPropagate ==
    pcG = "done" => gResult \in {<<"male">>, <<"female">>, <<"unknown">>}

---------------------------------------------------------------------------
(* get_mrm_dois_by_year: main and iter_crossref *)

\* the dests of the parser's add_argument calls: the attributes of args
ParserDests == {"year", "out"}

\* the options of the parser, all required
ParserOptions == {"--year", "--out"}

IntTokens == {"2022", "2023"}

\* command lines: a sequence of <<option, value>>
ArgvPool ==
    { << <<"--year", "2023">>, <<"--out", "a.csv">> >>,
      << <<"--out", "b.csv">>, <<"--year", "2022">> >>,
      << <<"--year", "2023">>, <<"--out", "a.csv">>, <<"--mailto", "me@x.org">> >>,
      << <<"--year", "2023">> >>,
      << <<"--year", "soon">>, <<"--out", "a.csv">> >> }

OptionsOf(argv) == {argv[i][1] : i \in DOMAIN argv}

\* ap.parse_args() accepts the command line: every option is one of the
\* parser's, every required option is there, --year is an int
ParseAccepts(argv) ==
    /\ OptionsOf(argv) = ParserOptions
    /\ \A i \in DOMAIN argv : argv[i][1] = "--year" => argv[i][2] \in IntTokens

\* the largest rows an iter_crossref call of the model asks for
MaxPageRows == 2

\* the pages of the history that is kept
MaxFetches == 2

CrossrefItems == {"a", "b"}

Cursors == {"c1", "c2"}

\* the items of a response to a request for n rows
ResponsePages(n) == UNION {[1..k -> CrossrefItems] : k \in 0..n}

InitFetch ==
    /\ fEntry \in {"main", "iter_crossref"}
    /\ IF fEntry = "main"
       THEN fArgv \in ArgvPool /\ fRows = 0 /\ cursor = "" /\ pcF = "parse"
       ELSE fArgv = <<>> /\ fRows \in 1..MaxPageRows /\ cursor = "*" /\ pcF = "fetch"
    /\ items = <<>>
    /\ nxt = ""
    /\ yi = 0
    /\ fetched = <<>>
    /\ yielded = <<>>
    /\ nFetch = 0
    /\ fResult = ""
    /\ IdleAllBut("F")

\* args = ap.parse_args(): argparse exits with status 2 on a command line it
\* does not accept
MainParse ==
    /\ pcF = "parse"
    /\ IF ParseAccepts(fArgv)
       THEN pcF' = "call" /\ fResult' = fResult
       ELSE pcF' = "done" /\ fResult' = "SystemExit"
    /\ UNCHANGED <<fEntry, fArgv, fRows, cursor, items, nxt, yi, fetched, yielded, nFetch>>
    /\ UNCHANGED othersF

\* rows = list(iter_crossref(args.year, args.mailto)): the arguments are
\* evaluated first, and args has no attribute mailto
MainCall ==
    /\ pcF = "call"
    /\ "mailto" \notin ParserDests
    /\ fResult' = "AttributeError"
    /\ pcF' = "done"
    /\ UNCHANGED <<fEntry, fArgv, fRows, cursor, items, nxt, yi, fetched, yielded, nFetch>>
    /\ UNCHANGED othersF

\* the history takes the page that is fetched now
Recording == nFetch <= MaxFetches

\* r = requests.get(...) failed, or not r.ok: the exception leaves the
\* generator
FetchFails ==
    /\ pcF = "fetch"
    /\ fResult' = "raise"
    /\ pcF' = "done"
    /\ UNCHANGED <<fEntry, fArgv, fRows, cursor, items, nxt, yi, fetched, yielded, nFetch>>
    /\ UNCHANGED othersF

\* a successful response: items = msg.get("items", []) or [];
\* if not items: break
Fetch ==
    /\ pcF = "fetch"
    /\ \E its \in ResponsePages(fRows), nx \in Cursors \cup {""} :
          /\ items' = its
          /\ nxt' = nx
          /\ nFetch' = IF nFetch <= MaxFetches THEN nFetch + 1 ELSE nFetch
          /\ fetched' = IF nFetch < MaxFetches THEN Append(fetched, its) ELSE fetched
          /\ IF its = <<>>
             THEN pcF' = "done" /\ fResult' = "stop" /\ yi' = 0
             ELSE pcF' = "yield" /\ fResult' = fResult /\ yi' = 1
    /\ UNCHANGED <<fEntry, fArgv, fRows, cursor, yielded>>
    /\ UNCHANGED othersF

\* one iteration of "for it in items": yield
YieldItem ==
    /\ pcF = "yield"
    /\ yi <= Len(items)
    /\ yielded' = IF Recording THEN Append(yielded, items[yi]) ELSE yielded
    /\ yi' = yi + 1
    /\ UNCHANGED <<fEntry, fArgv, fRows, cursor, items, nxt, fetched, nFetch, fResult, pcF>>
    /\ UNCHANGED othersF

\* a cursor that ends the loop
CursorStops(nx, cur0) == nx = "" \/ nx = cur0

\* if len(items) < rows: break;  if not nxt or nxt == cursor: break
StopAfterPage ==
    /\ pcF = "yield"
    /\ yi > Len(items)
    /\ Len(items) < fRows \/ CursorStops(nxt, cursor)
    /\ pcF' = "done"
    /\ fResult' = "stop"
    /\ UNCHANGED <<fEntry, fArgv, fRows, cursor, items, nxt, yi, fetched, yielded, nFetch>>
    /\ UNCHANGED othersF

\* cursor = nxt, and the loop goes round
NextCursor ==
    /\ pcF = "yield"
    /\ yi > Len(items)
    /\ ~(Len(items) < fRows \/ CursorStops(nxt, cursor))
    /\ cursor' = nxt
    /\ pcF' = "fetch"
    /\ UNCHANGED <<fEntry, fArgv, fRows, items, nxt, yi, fetched, yielded, nFetch, fResult>>
    /\ UNCHANGED othersF

NextFetch ==
    MainParse \/ MainCall \/ FetchFails \/ Fetch \/ YieldItem \/ StopAfterPage \/ NextCursor

SpecFetch == InitFetch /\ [][NextFetch]_vars

\* the program keeps running and every request is answered
SpecFetchFair == SpecFetch /\ WF_vars(NextFetch)

\* the command line is the documented one: --year with a year and --out
DocumentedUsage(argv) ==
    /\ Len(argv) = 2
    /\ ParseAccepts(argv)

\* C26: run with the documented arguments --year and --out only, main ends
\* with the CSV written and without an error.
C26_DocumentedUsageWrites ==
    (fEntry = "main" /\ pcF = "done" /\ DocumentedUsage(fArgv)) => fResult = "written"

\* the items of the pages of the history, one after the other
RECURSIVE FlattenPages(_)
FlattenPages(ps) == IF ps = <<>> THEN <<>> ELSE Head(ps) \o FlattenPages(Tail(ps))

\* within the history, what was yielded is the items of the pages fetched
\* before and the items of the present page up to the loop's position
YieldedInOrder ==
    Recording =>
        yielded = IF fetched = <<>> THEN <<>>
                  ELSE FlattenPages(SubSeq(fetched, 1, Len(fetched) - 1))
                       \o SubSeq(items, 1, yi - 1)

\* C30: iter_crossref ends whatever the successful responses are, and until
\* then it yields every item of every page it fetched, in order.
C30_IterCrossrefTerminates ==
    /\ (fEntry = "iter_crossref") ~> (pcF = "done")
    /\ [](fEntry = "iter_crossref" => YieldedInOrder)

---------------------------------------------------------------------------
(* main of sort_mrm_pdfs_by_acceptance_and_build_workbook.py *)

MaxSortPdfs == 3

\* the sheets of create_workbook: the twelve months and Sheet7
SheetNames == Range(MONTH_NAMES) \cup {"Sheet7"}

\* the folder base / m of ensure_month_folders, as a path part
MonthFolderNames ==
    << <<"J", "a", "n", "u", "a", "r", "y">>, <<"F", "e", "b", "r", "u", "a", "r", "y">>, <<"M", "a", "r", "c", "h">>, <<"A", "p", "r", "i", "l">>, <<"M", "a", "y">>, <<"J", "u", "n", "e">>,
       <<"J", "u", "l", "y">>, <<"A", "u", "g", "u", "s", "t">>, <<"S", "e", "p", "t", "e", "m", "b", "e", "r">>, <<"O", "c", "t", "o", "b", "e", "r">>, <<"N", "o", "v", "e", "m", "b", "e", "r">>, <<"D", "e", "c", "e", "m", "b", "e", "r">> >>

\* the places under the PDF folder where a run may find a PDF
SortPathPool ==
    { <<<<"A">>, <<"a", ".", "p", "d", "f">>>>, <<<<"i", "n">>, <<"a", ".", "p", "d", "f">>>>,
      <<<<"J", "a", "n", "u", "a", "r", "y">>, <<"a", ".", "p", "d", "f">>>>, <<<<"J", "a", "n", "u", "a", "r", "y">>, <<"a", "_", "_", "d", "u", "p", ".", "p", "d", "f">>>> }

\* what PyPDF2 gives for a PDF: whether the reader opens it, and the text of
\* each page, Raise for a page whose extraction fails
SortDocPool ==
    { [opens |-> FALSE, pages |-> <<>>],
      [opens |-> TRUE, pages |-> <<Raise, Raise>>],
      [opens |-> TRUE, pages |-> << <<"d", "o", "i", " ", "1", "0", ".", "1", "0", "0", "2", "/", "a">> >>],
      [opens |-> TRUE, pages |-> << <<"A", "c", "c", "e", "p", "t", "e", "d", " ", "2", " ", "J", "a", "n", " ", "2", "0", "2", "5">>, <<"1", "0", ".", "1", "0", "0", "2", "/", "B", ".">> >>],
      [opens |-> TRUE, pages |-> << <<"A", "c", "c", "e", "p", "t", "e", "d", ":", " ", "2", "0", "2", "5", "-", "0", "2", "-", "0", "3">> >>] }

\* an extract_text_pypdf2 that hands on the reader's failure as text
ExtractTextOfFailure(doc) ==
    IF ~doc.opens THEN <<"P", "d", "f", "R", "e", "a", "d", "E", "r", "r", "o", "r">>
    ELSE JoinLines([i \in DOMAIN doc.pages |->
                       IF doc.pages[i] = Raise THEN <<>> ELSE doc.pages[i]])

\* extract_text_pypdf2: "" when the reader fails, otherwise the page texts
\* joined by line breaks, "" for a page that fails
extract_text_pypdf2(doc) ==
    IF ~doc.opens THEN <<>>
    ELSE JoinLines([i \in DOMAIN doc.pages |->
                       IF doc.pages[i] = Raise THEN <<>> ELSE doc.pages[i]])

\* the patterns of parse_accepted_date from pat on, for a text that
\* normalize_text_for_dates has left non-empty
RECURSIVE AcceptedFrom(_, _)
AcceptedFrom(t, pat) ==
    IF pat = "done" THEN None
    ELSE CHOOSE r \in {IF m.ok /\ Outcome(pat, m).decided
                       THEN Outcome(pat, m).value
                       ELSE AcceptedFrom(t, NextPattern(pat)) :
                          m \in {Search(pat, t)}} : TRUE

\* t = normalize_text_for_dates(text); if not t: return None; then the
\* patterns in their order
parse_accepted_date(text) ==
    CHOOSE r \in {IF t = <<>> THEN None ELSE AcceptedFrom(t, PatternOrder[1]) :
                     t \in {normalize_text_for_dates(text)}} : TRUE

\* f"{n:02d}" and f"{n:04d}"
TwoDigits(n) == <<DigitChars[((n \div 10) % 10) + 1], DigitChars[(n % 10) + 1]>>

FourDigits(n) == TwoDigits(n \div 100) \o TwoDigits(n % 100)

\* a month_sheet_name that files a PDF without a date under January
MonthSheetUndatedToJanuary(d) == IF d = None THEN MONTH_NAMES[1] ELSE MONTH_NAMES[d[2]]

\* month_sheet_name
month_sheet_name(d) == IF d = None THEN "Sheet7" ELSE MONTH_NAMES[d[2]]

\* month_cell_value
month_cell_value(d) ==
    IF d = None THEN <<>>
    ELSE FourDigits(d[1]) \o <<"-">> \o TwoDigits(d[2]) \o <<"-", "0", "1">>

\* acc.isoformat() if acc else ""
IsoFormat(d) ==
    IF d = None THEN <<>>
    ELSE FourDigits(d[1]) \o <<"-">> \o TwoDigits(d[2]) \o <<"-">> \o TwoDigits(d[3])

\* text = extract_text_pypdf2(pdf); doi = parse_doi(text);
\* acc = parse_accepted_date(text)
SortExtracted(doc) ==
    CHOOSE x \in {[text |-> text, doi |-> parse_doi(text),
                   acc |-> parse_accepted_date(text)] :
                      text \in {extract_text_pypdf2(doc)}} : TRUE

\* the documents of the pool, each with what a run reads from it
SortDocs == {[doc |-> d, read |-> SortExtracted(d)] : d \in SortDocPool}

\* sorted(...): the paths in increasing order
ScanOrder(S) ==
    [i \in 1..Cardinality(S) |->
        CHOOSE p \in S : Cardinality({q \in S : PathLess(q, p)}) = i - 1]

\* the file at path p
FileAt(tree, p) == CHOOSE f \in tree : f.path = p

\* dest_path.exists()
Exists(tree, p) == \E f \in tree : f.path = p

\* f"{pdf.stem}__dup{pdf.suffix}" of a name that ends in .pdf
DupName(name) == SubSeq(name, 1, Len(name) - 4) \o <<"_", "_", "d", "u", "p">> \o <<".", "p", "d", "f">>

\* if dest_path.exists(): dest_path = dest_folder / f"{pdf.stem}__dup{pdf.suffix}"
DestName(tree, folder, name) ==
    IF Exists(tree, <<folder, name>>) THEN DupName(name) ELSE name

\* shutil.move(src, dst): a file at dst is replaced
Move(tree, src, dst) ==
    {f \in tree : f.path # src /\ f.path # dst}
        \cup {[path |-> dst, file |-> FileAt(tree, src).file, id |-> FileAt(tree, src).id]}

\* the PDF folder of a run: at most MaxSortPdfs PDFs, each known by the place
\* it had at the start
SortTrees ==
    UNION {{ {[path |-> p, file |-> docs[p], id |-> p] : p \in ps} :
               docs \in [ps -> SortDocs]} :
              ps \in {s \in SUBSET SortPathPool : Cardinality(s) <= MaxSortPdfs}}

InitSort ==
    /\ dry_run \in BOOLEAN
    /\ move_files \in BOOLEAN
    /\ mTree \in SortTrees
    /\ mTree0 = mTree
    /\ mDirs = {f.path[1] : f \in mTree}
    /\ mWritten = {}
    /\ mPdfs = <<>>
    /\ mi = 0
    /\ mSheets = <<>>
    /\ mLog = <<>>
    /\ mMoves = <<>>
    /\ pcM = "start"
    /\ IdleAllBut("M")

\* month_folders = ensure_month_folders(base); wb = create_workbook()
EnsureFolders ==
    /\ pcM = "start"
    /\ mDirs' = mDirs \cup Range(MonthFolderNames)
    /\ mSheets' = [s \in SheetNames |-> <<>>]
    /\ pcM' = "scan"
    /\ UNCHANGED <<dry_run, move_files, mTree, mTree0, mWritten, mPdfs, mi, mLog, mMoves>>
    /\ UNCHANGED othersM

\* pdfs = sorted([p for p in base.rglob("*.pdf") if p.is_file()]);
\* if not pdfs: return
ScanPdfs ==
    /\ pcM = "scan"
    /\ mPdfs' = ScanOrder({f.path : f \in mTree})
    /\ mi' = 1
    /\ pcM' = IF mPdfs' = <<>> THEN "done" ELSE "loop"
    /\ UNCHANGED <<dry_run, move_files, mTree, mTree0, mDirs, mWritten, mSheets, mLog, mMoves>>
    /\ UNCHANGED othersM

\* the notes of one PDF, in the order they are appended
NoteParts(x, title) ==
    (IF x.text = <<>> THEN <<"pdf_parse_failed">> ELSE <<>>)
        \o (IF x.doi = <<>> THEN <<"doi_not_found">> ELSE <<>>)
        \o (IF x.acc = None THEN <<"accepted_not_found">> ELSE <<>>)
        \o (IF title = <<>> /\ x.doi # <<>> THEN <<"crossref_lookup_failed">> ELSE <<>>)

\* one iteration of "for pdf in pdfs": the text, the extractors, the lookup,
\* the row, the log row, the move.  The row keeps the cells the run fills from
\* the PDF; pdf is the position of the PDF in pdfs, of which the sheet keeps
\* no cell.
SortPdf(title) ==
    /\ pcM = "loop"
    /\ mi <= Len(mPdfs)
    /\ LET pdf == mPdfs[mi]
           x == FileAt(mTree, pdf).file.read
           note_parts == NoteParts(x, title)
           sheet == month_sheet_name(x.acc)
       IN /\ (x.doi = <<>> => title = <<>>)
          /\ mSheets' = [mSheets EXCEPT ![sheet] =
                 Append(@, [Filename |-> title, Month |-> month_cell_value(x.acc),
                            Link |-> x.doi, notes |-> note_parts, pdf |-> mi])]
          /\ mLog' = Append(mLog,
                 [pdf |-> pdf, doi |-> x.doi, accepted_date |-> IsoFormat(x.acc),
                  status |-> IF x.doi # <<>> /\ x.acc # None THEN "ok" ELSE "needs_review",
                  note |-> note_parts])
          /\ IF move_files /\ x.acc # None /\ x.text # <<>> /\ ~dry_run
                /\ pdf[1] # MonthFolderNames[x.acc[2]]
             THEN LET dest_folder == MonthFolderNames[x.acc[2]]
                      dest_path == <<dest_folder, DestName(mTree, dest_folder, pdf[2])>>
                  IN /\ mTree' = Move(mTree, pdf, dest_path)
                     /\ mMoves' = Append(mMoves,
                            [src |-> pdf, dst |-> dest_path,
                             replaced |-> Exists(mTree, dest_path)])
             ELSE UNCHANGED <<mTree, mMoves>>
    /\ mi' = mi + 1
    /\ UNCHANGED <<dry_run, move_files, mTree0, mDirs, mWritten, mPdfs, pcM>>
    /\ UNCHANGED othersM

\* after the loop: wb.save(out_xlsx) and write_log_csv, unless --dry-run
WriteOutputs ==
    /\ pcM = "loop"
    /\ mi > Len(mPdfs)
    /\ mWritten' = IF dry_run THEN mWritten ELSE {"workbook", "log"}
    /\ pcM' = "done"
    /\ UNCHANGED <<dry_run, move_files, mTree, mTree0, mDirs, mPdfs, mi, mSheets, mLog, mMoves>>
    /\ UNCHANGED othersM

\* what crossref_lookup gives as the title: "" when the request fails
CrossrefTitles == {<<>>, <<"T">>}

NextSort ==
    \/ EnsureFolders
    \/ ScanPdfs
    \/ \E title \in CrossrefTitles : SortPdf(title)
    \/ WriteOutputs

SpecSort == InitSort /\ [][NextSort]_vars

---------------------------------------------------------------------------
(* Claims about the run of the sorter *)

\* the PDFs the loop has gone through
SortedSoFar == 1..(mi - 1)

\* the data rows of all the sheets together, each by sheet and position
DataRows == {x \in SheetNames \X (1..MaxSortPdfs + 1) : x[2] <= Len(mSheets[x[1]])}

\* the rows, over all sheets, that the run appended for the i-th PDF
RowsOf(i) == {x \in DataRows : mSheets[x[1]][x[2]].pdf = i}

\* the row x is where a PDF with the logged accepted date d belongs: the
\* sheet of the month of d with the first day of that month in Month, or
\* Sheet7 with a blank Month when there is no date
RowPlacedBy(x, d) ==
    IF d = <<>>
    THEN x[1] = "Sheet7" /\ mSheets[x[1]][x[2]].Month = <<>>
    ELSE /\ x[1] = MONTH_NAMES[ToInt(SubSeq(d, 6, 7))]
         /\ mSheets[x[1]][x[2]].Month = SubSeq(d, 1, 7) \o <<"-", "0", "1">>

\* C27: every PDF the sorter has gone through has exactly one row, in
\* exactly one sheet: the sheet of the month of its accepted date, with
\* "YYYY-MM-01" in Month, or Sheet7 with a blank Month when no date was
\* parsed; a PDF not reached yet has no row, and after the run the sheets
\* hold as many data rows as PDFs were found.
C27_OneRowPerPdf ==
    pcM \in {"loop", "done"} =>
        /\ \A i \in DOMAIN mPdfs :
               IF i \in SortedSoFar
               THEN \E x \in DataRows :
                       RowsOf(i) = {x} /\ RowPlacedBy(x, mLog[i].accepted_date)
               ELSE RowsOf(i) = {}
        /\ pcM = "done" => Cardinality(DataRows) = Len(mPdfs)

\* a finished run over three PDFs that filled a month sheet and Sheet7
C27_Witness ==
    /\ pcM = "done"
    /\ Len(mPdfs) = 3
    /\ mSheets["Sheet7"] # <<>>
    /\ mSheets["January"] # <<>>
    /\ mSheets["February"] # <<>>

\* the folders the PDF folder held at the start
Dirs0 == {f.path[1] : f \in mTree0}

\* C24: with --dry-run nothing under the PDF folder changes: no PDF moves
\* and no workbook, log file or directory is created; without --move-files
\* no PDF moves; and only a PDF with a parsed accepted date moves.
C24_DryRunChangesNothing ==
    pcM # "idle" =>
        /\ dry_run => mTree = mTree0 /\ mWritten = {} /\ mDirs = Dirs0
        /\ ~move_files => mTree = mTree0 /\ mMoves = <<>>
        /\ \A k \in DOMAIN mMoves :
               \E i \in SortedSoFar :
                   mLog[i].pdf = mMoves[k].src /\ mLog[i].accepted_date # <<>>

\* the documents that are somewhere under the PDF folder
DocsKept(tree) == {f.id : f \in tree}

\* C29: a move never replaces a file: every document the folder held at the
\* start is still in it, also with three PDFs of one name on their way to
\* one month folder; and a PDF that is in its month folder already stays
\* where it is, under its name.
C29_NeverOverwrites ==
    pcM # "idle" =>
        /\ \A k \in DOMAIN mMoves : ~mMoves[k].replaced
        /\ DocsKept(mTree) = DocsKept(mTree0)
        /\ \A k \in DOMAIN mMoves : mMoves[k].src[1] # mMoves[k].dst[1]

---------------------------------------------------------------------------
(* main of add_affiliation_country_from_pdfs.py *)

MaxCountryPdfs == 2

\* MONTH_SHEETS
MONTH_SHEETS == MONTH_NAMES \o <<"Sheet7">>

\* NEW_COL
NEW_COL == "First author affiliation country"

\* pick_first_affiliation_line(split_pre_abstract(text), name_map,
\* keys_sorted)[1]: the country of the first line, pass by pass, from which
\* infer_country draws one; "" when there is none
PickCountry(text) ==
    CHOOSE c \in
        {IF \E p \in 1..LastPass, i \in DOMAIN lines :
                PassText(p, lines[i]) # NoText /\ InferOf(PassText(p, lines[i])) # <<>>
         THEN LET p == MinOf({q \in 1..LastPass : \E i \in DOMAIN lines :
                                 /\ PassText(q, lines[i]) # NoText
                                 /\ InferOf(PassText(q, lines[i])) # <<>>})
                  i == MinOf({j \in DOMAIN lines :
                                 /\ PassText(p, lines[j]) # NoText
                                 /\ InferOf(PassText(p, lines[j])) # <<>>})
              IN InferOf(PassText(p, lines[i]))
         ELSE <<>> :
            lines \in {StrippedNonBlank(SplitLines(split_pre_abstract(text)))}} : TRUE

\* what pdfminer gives for the first pages of a PDF, Raise when it fails
CountryTextPool ==
    { Raise,
      <<"1", "0", ".", "1", "0", "0", "2", "/", "m", "r", "m", ".", "1", "\n", "1", " ", "L", "a", "b", ",", " ", "F", "r", "a", "n", "c", "e", "\n", "A", "b", "s", "t", "r", "a", "c", "t">>,
      <<"d", "o", "i", ":", "1", "0", ".", "1", "0", "0", "2", "/", "M", "R", "M", ".", "2", " ", "\n", "n", "o", " ", "c", "o", "u", "n", "t", "r", "y">>,
      <<"1", "0", ".", "1", "0", "0", "2", "/", "m", "r", "m", ".", "1", "\n", "U", "n", "i", "v", "e", "r", "s", "i", "t", "y", " ", "H", "o", "s", "p", "i", "t", "a", "l", " ", "(", "C", "h", "i", "n", "a", ")">> }

\* a PDF at path with the first-pages text t: the identifier the index takes
\* from it and the country the row loop takes from it
CountryPdf(path, t) ==
    CHOOSE f \in {[path |-> path, text |-> t, doi |-> affil_parse_doi(x),
                   country |-> PickCountry(x)] :
                     x \in {extract_first_pages_text([text |-> t])}} : TRUE

CountryPathPool == { <<<<"J", "a", "n">>, <<"b", ".", "p", "d", "f">>>>, <<<<"F", "e", "b">>, <<"a", ".", "p", "d", "f">>>> }

\* sorted([p for p in year_folder.rglob("*.pdf") if p.is_file()]): the PDFs
\* under the year folder, in the order of their paths
CountryFolders ==
    UNION {{v \in [1..n -> {CountryPdf(p, t) : p \in CountryPathPool,
                                               t \in CountryTextPool}] :
               \A i, j \in 1..n : i < j => PathLess(v[i].path, v[j].path)} :
             n \in 0..MaxCountryPdfs}

\* index_pdfs_by_doi over the sorted PDFs: the first document of an
\* identifier keeps it
RECURSIVE IndexFrom(_, _)
IndexFrom(fs, d) ==
    IF fs = <<>> THEN d
    ELSE IndexFrom(Tail(fs), IndexStore(d, Head(fs).doi, Head(fs).path))

\* the value of a cell that was never written
NoValue == <<"None">>

\* the data rows a workbook of the runs may hold: the Link cell and the cell
\* of the country column
CountryRowPool ==
    { [link |-> NoValue, country |-> <<"C", "h", "i", "l", "e">>],
      [link |-> Doi1Link, country |-> NoValue],
      [link |-> <<"d", "o", "i", ":", "1", "0", ".", "1", "0", "0", "2", "/", "M", "R", "M", ".", "2">>, country |-> <<"C", "h", "i", "l", "e">>],
      [link |-> <<"d", "o", "i", ":", "1", "0", ".", "1", "0", "0", "2", "/", "M", "R", "M", ".", "2">>, country |-> NoValue],
      [link |-> <<"s", "e", "e", " ", "1", "0", ".", "1", "0", "0", "2", "/", "m", "r", "m", ".", "9">>, country |-> <<"C", "h", "i", "l", "e">>] }

\* the sheets of the workbook, in workbook order, with their header rows
CountryLayouts ==
    { << [name |-> "January", header |-> <<"Link", NEW_COL>>] >>,
      << [name |-> "Sheet7", header |-> <<"Link">>],
         [name |-> "January", header |-> <<"Filename", "Link", NEW_COL>>] >>,
      << [name |-> "Notes", header |-> <<"Link", NEW_COL>>],
         [name |-> "February", header |-> <<"Filename", NEW_COL>>] >> }

\* the rows a sheet with this header may hold: without the country column
\* (ensure_column puts it after the last column in use) no row has a
\* country cell
CountryRowSeqs(header) ==
    UNION {[1..k -> {r \in CountryRowPool : NEW_COL \in Range(header) \/ r.country = NoValue}] :
             k \in 0..MaxRows}

CountryWorkbooks ==
    UNION {{[i \in DOMAIN L |-> [name |-> L[i].name, header |-> L[i].header, rows |-> f[i]]] :
              f \in {g \in [DOMAIN L -> UNION {CountryRowSeqs(L[i].header) : i \in DOMAIN L}] :
                        /\ TotalRows(g) <= MaxRows
                        /\ \A i \in DOMAIN L : g[i] \in CountryRowSeqs(L[i].header)}} :
             L \in CountryLayouts}

InitCountry ==
    /\ no_backup \in BOOLEAN
    /\ \E w \in CountryWorkbooks : cDisk = [xlsx |-> w, backups |-> <<>>, logs |-> <<>>]
    /\ cPdfs \in CountryFolders
    /\ cWb = <<>>
    /\ cIndex = <<>>
    /\ cSheet = 0
    /\ cRow = 0
    /\ cLog = <<>>
    /\ cSeen = <<>>
    /\ pcC = "start"
    /\ IdleAllBut("C")

\* if not args.no_backup: shutil.copy2(xlsx_path, backup)
CountryBackup ==
    /\ pcC = "start"
    /\ cDisk' = [cDisk EXCEPT !.backups = BackupOf(cDisk.xlsx, @, ~no_backup)]
    /\ pcC' = "index"
    /\ UNCHANGED <<no_backup, cWb, cPdfs, cIndex, cSheet, cRow, cLog, cSeen>>
    /\ UNCHANGED othersC

\* doi_to_pdf = index_pdfs_by_doi(year_folder); wb = load_workbook(xlsx_path)
IndexAndLoad ==
    /\ pcC = "index"
    /\ cIndex' = IndexFrom(cPdfs, <<>>)
    /\ cWb' = cDisk.xlsx
    /\ pcC' = "sheet"
    /\ UNCHANGED <<no_backup, cDisk, cPdfs, cSheet, cRow, cLog, cSeen>>
    /\ UNCHANGED othersC

\* the position in wb of the sheet called name, 0 when wb has none
CountrySheetPos(w, name) ==
    IF \E s \in DOMAIN w : w[s].name = name
    THEN CHOOSE s \in DOMAIN w : w[s].name = name
    ELSE 0

\* sheet_name in wb.sheetnames, and header has "Link"
HasLinkSheet(w, k) ==
    /\ CountrySheetPos(w, MONTH_SHEETS[k]) # 0
    /\ "Link" \in Range(w[CountrySheetPos(w, MONTH_SHEETS[k])].header)

\* ensure_column(ws, NEW_COL): the header gets the column unless it has it
ensure_column(header, col_name) ==
    IF col_name \in Range(header) THEN header ELSE Append(header, col_name)

\* for sheet_name in MONTH_SHEETS: the next sheet that the workbook has with
\* a Link column, its country column ensured; after the last, the save
EnterSheet ==
    /\ pcC = "sheet"
    /\ IF \E k \in DOMAIN MONTH_SHEETS : k > cSheet /\ HasLinkSheet(cWb, k)
       THEN LET k == MinOf({j \in DOMAIN MONTH_SHEETS : j > cSheet /\ HasLinkSheet(cWb, j)})
                s == CountrySheetPos(cWb, MONTH_SHEETS[k])
            IN /\ cSheet' = k
               /\ cRow' = 1
               /\ cWb' = [cWb EXCEPT ![s].header = ensure_column(@, NEW_COL)]
               /\ pcC' = "row"
       ELSE /\ pcC' = "save"
            /\ UNCHANGED <<cSheet, cRow, cWb>>
    /\ UNCHANGED <<no_backup, cDisk, cPdfs, cIndex, cLog, cSeen>>
    /\ UNCHANGED othersC

\* the PDF the index holds for doi
IndexedPdf(doi) == CHOOSE f \in Range(cPdfs) : f.path = DictGet(cIndex, doi)

\* one iteration of "for r in range(2, ws.max_row + 1)"; r is the row of the
\* sheet, the header row being row 1
UpdateRow ==
    /\ pcC = "row"
    /\ LET s == CountrySheetPos(cWb, MONTH_SHEETS[cSheet])
       IN /\ cRow <= Len(cWb[s].rows)
          /\ LET link == cWb[s].rows[cRow].link
                 doi == affil_parse_doi(IF link = NoValue THEN <<>> ELSE link)
                 r == cRow + 1
             IN /\ cSeen' = Append(cSeen, <<s, cRow>>)
                /\ IF doi = <<>>
                   THEN UNCHANGED <<cWb, cLog>>
                   ELSE IF ~DictHas(cIndex, doi)
                   THEN /\ cLog' = Append(cLog,
                               [sheet |-> MONTH_SHEETS[cSheet], row |-> r, doi |-> doi,
                                pdf_path |-> <<>>, country |-> <<>>,
                                status |-> "pdf_not_found_for_doi"])
                        /\ UNCHANGED cWb
                   ELSE LET country == IndexedPdf(doi).country
                        IN /\ cWb' = [cWb EXCEPT ![s].rows[cRow].country = country]
                           /\ cLog' = Append(cLog,
                                  [sheet |-> MONTH_SHEETS[cSheet], row |-> r, doi |-> doi,
                                   pdf_path |-> IndexedPdf(doi).path, country |-> country,
                                   status |-> IF country # <<>> THEN "ok"
                                              ELSE "country_not_found_in_pdf_text"])
    /\ cRow' = cRow + 1
    /\ UNCHANGED <<no_backup, cDisk, cPdfs, cIndex, cSheet, pcC>>
    /\ UNCHANGED othersC

\* the rows of the sheet are done: the next sheet
LeaveSheet ==
    /\ pcC = "row"
    /\ cRow > Len(cWb[CountrySheetPos(cWb, MONTH_SHEETS[cSheet])].rows)
    /\ pcC' = "sheet"
    /\ UNCHANGED <<no_backup, cDisk, cWb, cPdfs, cIndex, cSheet, cRow, cLog, cSeen>>
    /\ UNCHANGED othersC

\* wb.save(xlsx_path); the log file
CountrySave ==
    /\ pcC = "save"
    /\ cDisk' = [cDisk EXCEPT !.xlsx = cWb, !.logs = <<cLog>>]
    /\ pcC' = "done"
    /\ UNCHANGED <<no_backup, cWb, cPdfs, cIndex, cSheet, cRow, cLog, cSeen>>
    /\ UNCHANGED othersC

NextCountry ==
    \/ CountryBackup
    \/ IndexAndLoad
    \/ EnterSheet
    \/ UpdateRow
    \/ LeaveSheet
    \/ CountrySave

SpecCountry == InitCountry /\ [][NextCountry]_vars

---------------------------------------------------------------------------
(* The three programs that go through a folder of PDFs or a workbook: a
   run of the sorter, of the keyword updater or of the affiliation updater *)

InitRuns == InitSort \/ InitUpdate \/ InitCountry

NextRuns == NextSort \/ NextUpdate \/ NextCountry

SpecRuns == InitRuns /\ [][NextRuns]_vars

---------------------------------------------------------------------------
(* Claims about the runs *)

\* the row x = <<sheet position, data row>> of the workbook w
CountryRow(w, x) == w[x[1]].rows[x[2]]

\* the PDFs of the year folder whose first pages hold the identifier doi
PdfsWith(doi) == {f \in Range(cPdfs) : f.doi = doi}

\* the PDF the index answers with for doi: the first one in path order
MatchedPdf(doi) ==
    CHOOSE f \in PdfsWith(doi) : \A g \in PdfsWith(doi) : g = f \/ PathLess(f.path, g.path)

\* the identifier in a Link cell
LinkIdentifier(link) == affil_parse_doi(IF link = NoValue THEN <<>> ELSE link)

\* the data rows of the workbook, each by sheet position and row
CountryCells(w) == {x \in (DOMAIN w) \X (1..(MaxRows + 1)) : x[2] <= Len(w[x[1]].rows)}

\* the sheets the row loop goes through
LoopSheets(w) ==
    {s \in DOMAIN w : w[s].name \in Range(MONTH_SHEETS) /\ "Link" \in Range(w[s].header)}

\* C28: for a data row the row loop visits: without an identifier in its
\* link, or without an indexed PDF for it, the country cell is as it was;
\* with a matched PDF the cell holds the country the PDF yields, and is
\* blank, whatever it held, when the PDF yields none.  Before the save the
\* loop has visited every data row of every sheet it goes through.
C28_CountryCellEffect ==
    pcC \in {"sheet", "row", "save"} =>
        /\ \A x \in CountryCells(cWb) :
              LET old == CountryRow(cDisk.xlsx, x)
                  new == CountryRow(cWb, x)
                  doi == LinkIdentifier(old.link)
              IN /\ new.link = old.link
                 /\ IF x \notin Range(cSeen) \/ doi = <<>> \/ PdfsWith(doi) = {}
                    THEN new.country = old.country
                    ELSE new.country = MatchedPdf(doi).country
        /\ pcC = "save" =>
              \A x \in CountryCells(cWb) : x[1] \in LoopSheets(cWb) => x \in Range(cSeen)

\* a run before its save that has set one cell to a country and blanked a
\* cell that held one
C28_Witness ==
    /\ pcC = "save"
    /\ \E x \in CountryCells(cWb) :
          /\ CountryRow(cDisk.xlsx, x).country = NoValue
          /\ CountryRow(cWb, x).country = <<"F", "r", "a", "n", "c", "e">>
    /\ \E x \in CountryCells(cWb) :
          /\ CountryRow(cDisk.xlsx, x).country = <<"C", "h", "i", "l", "e">>
          /\ CountryRow(cWb, x).country = <<>>

\* the Link cell holds an identifier: "10.", four to nine digits, "/" and
\* more, at a word boundary
HoldsIdentifier(link) ==
    /\ link # NoValue
    /\ \E p \in DOMAIN link : WordBoundary(link, p) /\ IdentifierShapedAt(link, p)

\* the visited row x is one for which the affiliation updater attempts an
\* update
Attempted(x) == HoldsIdentifier(CountryRow(cWb, x).link)

\* the log of the sorter has one row for each PDF gone through, in order
SortLogged ==
    pcM \in {"loop", "done"} =>
        /\ Len(mLog) = mi - 1
        /\ \A i \in DOMAIN mLog : mLog[i].pdf = mPdfs[i]
        /\ pcM = "done" => Len(mLog) = Len(mPdfs) /\ (~dry_run /\ mPdfs # <<>> => "log" \in mWritten)

\* the log of the keyword updater has one row for each PDF scanned, and the
\* log file holds them
UpdateLogged ==
    pcU # "idle" =>
        /\ Len(log_rows) = Len(match_trace)
        /\ pcU = "done" => disk.logs = <<log_rows>>

\* the log of the affiliation updater has one row for each visited row
\* whose link holds an identifier, in order, and the log file holds them
CountryLogged ==
    pcC \notin {"idle", "start", "index"} =>
        /\ LET att == SelectSeq(cSeen, Attempted)
           IN /\ Len(cLog) = Len(att)
              /\ \A k \in DOMAIN cLog :
                    /\ cLog[k].sheet = cWb[att[k][1]].name
                    /\ cLog[k].row = att[k][2] + 1
        /\ pcC = "done" => cDisk.logs = <<cLog>>

\* C22: every processed item has exactly one log row, whatever branch it
\* took: each PDF the keyword updater scans, each PDF the sorter goes
\* through, each workbook row with an identifier in its link that the
\* affiliation updater visits; at the end the rows number the items.
C22_OneLogRowPerItem == SortLogged /\ UpdateLogged /\ CountryLogged

\* a finished run of the affiliation updater that logged a row without a
\* PDF, passed over a row without an identifier and logged an updated row
C22_Witness ==
    /\ pcC = "done"
    /\ Len(cSeen) > Len(cLog)
    /\ \E k \in DOMAIN cLog : cLog[k].status = "ok"

\* the reader cannot open the document, or every page fails
Unreadable(doc) == ~doc.opens \/ \A i \in DOMAIN doc.pages : doc.pages[i] = Raise

\* every extractor gives "nothing found" for the empty text
AbsentOnEmptyText ==
    /\ parse_doi(<<>>) = <<>>
    /\ affil_parse_doi(<<>>) = <<>>
    /\ parse_accepted_date(<<>>) = None
    /\ PickCountry(<<>>) = <<>>
    /\ notebook_style_keyword_scan(<<[old |-> <<>>, new |-> <<>>]>>, SEARCH_TERMS) = <<>>

\* the step of the sorter for an unreadable PDF: a row in Sheet7, a log row
\* without identifier and date that asks for review (and says that the
\* parse failed when the reader gave no text at all), and the loop goes on
UnreadableSorted ==
    pcM = "loop" /\ mi <= Len(mPdfs) /\ Unreadable(FileAt(mTree, mPdfs[mi]).file.doc) =>
        /\ mLog' = Append(mLog, mLog'[mi])
        /\ mLog'[mi].pdf = mPdfs[mi]
        /\ mLog'[mi].doi = <<>>
        /\ mLog'[mi].accepted_date = <<>>
        /\ mLog'[mi].status = "needs_review"
        /\ ~FileAt(mTree, mPdfs[mi]).file.doc.opens => "pdf_parse_failed" \in Range(mLog'[mi].note)
        /\ Len(mSheets'["Sheet7"]) = Len(mSheets["Sheet7"]) + 1
        /\ mi' = mi + 1
        /\ pcM' = "loop"
        /\ mTree' = mTree

C25_BackupBeforeOverwrite ==
    [][/\ pcU # "idle" =>
            /\ disk'.xlsx # disk.xlsx =>
                  disk.backups = IF make_backup THEN <<disk.xlsx>> ELSE <<>>
            /\ disk'.backups # disk.backups =>
                  /\ make_backup
                  /\ disk.backups = <<>>
                  /\ disk'.backups = <<disk.xlsx>>
                  /\ disk'.xlsx = disk.xlsx
       /\ pcC # "idle" =>
            /\ cDisk'.xlsx # cDisk.xlsx =>
                  cDisk.backups = IF no_backup THEN <<>> ELSE <<cDisk.xlsx>>
            /\ cDisk'.backups # cDisk.backups =>
                  /\ ~no_backup
                  /\ cDisk.backups = <<>>
                  /\ cDisk'.backups = <<cDisk.xlsx>>
                  /\ cDisk'.xlsx = cDisk.xlsx]_vars

\* a finished run of the keyword updater that changed the workbook file and
\* left a backup of what the file held
C25_Witness ==
    /\ pcU = "done"
    /\ make_backup
    /\ Len(disk.backups) = 1
    /\ disk.backups[1] # disk.xlsx
    /\ build_workbook_index(disk.backups[1]) = index

=============================================================================
